---------------------------- MODULE Spec2Model ----------------------------
(***************************************************************************)
(* A model of the Canvace engine as shipped with the Ladybug game           *)
(* (src/index.html holds the engine, src/js/ladybug.js the game).           *)
(*                                                                          *)
(* The module holds several specifications, one per component:              *)
(*   SpecAstar      Canvace.Astar.findPath over Canvace.Heap, run on        *)
(*                  hand-built weighted graphs and on TileMap graph nodes    *)
(*   SpecCollision  Canvace.TileMap.rectangleCollision                      *)
(*   SpecBuckets    Canvace.Buckets (Element, Bucket, forEachElement)       *)
(*   SpecTileMap    Canvace.TileMap.putAt over Canvace.Matrix and Buckets   *)
(*   SpecInstance   Canvace.Stage.Instance.rectangleCollision               *)
(*   SpecFrameTable an Animation of Canvace.FrameTable                       *)
(*   SpecHeap       Canvace.Heap on its own                                  *)
(*   SpecMultiSet   Canvace.MultiSet                                         *)
(*   SpecRenderLoop Canvace.RenderLoop; SpecRenderLoopLive adds the          *)
(*                  fairness of the browser's timers                         *)
(*   SpecList       Canvace.List                                             *)
(*   SpecMachine    Canvace.ParametricStateMachine                           *)
(*   SpecLadybug    the character of the game: its machine `states`, the     *)
(*                  keyboard and the callback of the render loop             *)
(*   SpecLoader     Canvace.Loader                                           *)
(* Every specification constrains all the variables; the variables of the   *)
(* components a specification does not exercise stay at their idle values.  *)
(*                                                                          *)
(* Numbers.  JavaScript numbers are modelled by integers:                   *)
(*  - path costs on the tile grid are counted in 1/Unit of a cell, so that  *)
(*    an orthogonal step costs Unit and a diagonal step Sqrt2; for the      *)
(*    sums a*1 + b*sqrt(2) with a, b < 30 that occur here the order of the  *)
(*    scaled integers is the order of the reals;                            *)
(*  - rectangle coordinates are counted in 1/Unit of a cell, so that the    *)
(*    0.001 tolerance of rectangleCollision is 1;                           *)
(*  - logical element coordinates are counted in 1/PosDen of a cell.        *)
(***************************************************************************)
EXTENDS Integers, Sequences, FiniteSets, TLC

VARIABLES
    \* ---- Canvace.Astar.findPath (locals of one call) ----
    graph,      \* the graph the start node belongs to (the caller's input)
    heap,       \* Canvace.Heap: the array `heap`
    openScore,  \* openScore: node id -> cost of the best known path
    closedSet,  \* closedSet: set of node ids
    backLink,   \* backLink: node id -> [parent, edge]
    path,       \* the value findPath returned
    apc,        \* position of the call: "idle", "loop", "done"
    \* ---- Canvace.Matrix inside Canvace.TileMap ----
    matrix,     \* the fields data (<<i, j, k>> -> cell value) and layers
    \* ---- Canvace.TileMap.rectangleCollision ----
    rc,         \* the last call: its arguments and the vector it returned
    \* ---- Canvace.Buckets over Canvace.View ----
    elements,   \* the Element objects created so far, in creation order
    buckets,    \* buckets: <<i, j>> -> Bucket
    eraser,     \* eraser: <<i, j, k>> -> the element the stored closure removes
    origin,     \* the view's x0 and y0
    bc,         \* what the last forEachElement passed to its action
    \* ---- Canvace.Stage ----
    instances,  \* instances: the Instance objects in the set, each named by
                \* the element it wraps
    \* ---- Canvace.TileMap.putAt ----
    pc,         \* the last call: its arguments and how it ended
    \* ---- Canvace.Stage.Instance.rectangleCollision ----
    ic,         \* the instance's position and previous position, the last
                \* call's arguments and the vector it returned
    \* ---- an Animation of Canvace.FrameTable ----
    fc,         \* the frames, the locals of the constructor, the table and
                \* the unit, the last call's timestamp and the id it returned
    \* ---- Canvace.MultiSet ----
    ms,         \* elements, nextId and count, the removers called so far and
                \* what the last remover returned
    \* ---- Canvace.RenderLoop ----
    rl,         \* running, banned and token, the callbacks the browser has
                \* scheduled, and the calls of the iteration in progress
    \* ---- Canvace.List ----
    ls,         \* the nodes made so far, head, tail and count, and the nodes
                \* the calls made so far have left in the list, in order
    \* ---- Canvace.ParametricStateMachine ----
    sm,         \* the declared transitions and the current state
    \* ---- the Ladybug game (src/js/ladybug.js) ----
    lb,         \* the character: its state machine, the keys held, its
                \* uniform velocity and whether its instance is on the stage
    \* ---- Canvace.Loader ----
    ld          \* the assets of one loadAssets call and the callbacks made

astarVars == <<graph, heap, openScore, closedSet, backLink, path, apc>>
bucketsVars == <<elements, buckets, eraser, origin, bc, instances>>
utilVars == <<ls, sm, lb, ld>>
stageVars == <<ic, fc, ms, rl, utilVars>>
vars == <<graph, heap, openScore, closedSet, backLink, path, apc, matrix, rc,
          elements, buckets, eraser, origin, bc, instances, pc, ic, fc, ms, rl,
          ls, sm, lb, ld>>

(***************************************************************************)
(* Bounds of the model                                                      *)
(***************************************************************************)
MaxW == 3           \* largest edge weight of the hand-built graphs
MaxH == 4           \* largest heuristic value of the hand-built graphs
EpsDen == 1         \* epsilon ranges over 0/EpsDen .. EpsDen/EpsDen
GridN == 3          \* side of the small tile grids findPath is run on
MaxObstacles == 2   \* most solid cells in a small tile grid
MaxWalls == 2       \* most solid cells in a map rectangleCollision is run on

(***************************************************************************)
(* Program constants                                                        *)
(***************************************************************************)
Unit == 1000        \* the cost 1 of an orthogonal step, in 1/1000
Sqrt2 == 1414       \* Math.sqrt(2), in 1/1000

Min(a, b) == IF a < b THEN a ELSE b
Max(a, b) == IF a > b THEN a ELSE b
Abs(a) == IF a < 0 THEN -a ELSE a

RECURSIVE Reverse(_)
Reverse(s) == IF s = <<>> THEN <<>> ELSE Reverse(Tail(s)) \o <<Head(s)>>

(***************************************************************************)
(* Static stage data: data.tiles.  Each descriptor carries the solid and    *)
(* mutable flags, the layout (span and reference cell) and the size and     *)
(* offset of the image in pixels.  Every descriptor has frames.             *)
(***************************************************************************)
FloorTile == 0      \* walkable, mutable, 1x1
WallTile == 1       \* solid, non-mutable, 1x1
CrateTile == 2      \* solid, mutable, 1x1
WideTile == 3       \* walkable, mutable, spans 1x2 cells (i x j), reference (0,0)
BlockTile == 4      \* solid, non-mutable, spans 2x1 cells, reference (1,0)

tiles ==
    (FloorTile :> [solid |-> FALSE, mutable |-> TRUE,
                   span |-> [i |-> 1, j |-> 1], ref |-> [i |-> 0, j |-> 0],
                   width |-> 3, height |-> 3, offset |-> [x |-> 0, y |-> 0]])
 @@ (WallTile  :> [solid |-> TRUE, mutable |-> FALSE,
                   span |-> [i |-> 1, j |-> 1], ref |-> [i |-> 0, j |-> 0],
                   width |-> 3, height |-> 3, offset |-> [x |-> 0, y |-> 0]])
 @@ (CrateTile :> [solid |-> TRUE, mutable |-> TRUE,
                   span |-> [i |-> 1, j |-> 1], ref |-> [i |-> 0, j |-> 0],
                   width |-> 3, height |-> 3, offset |-> [x |-> 0, y |-> 0]])
 @@ (WideTile  :> [solid |-> FALSE, mutable |-> TRUE,
                   span |-> [i |-> 1, j |-> 2], ref |-> [i |-> 0, j |-> 0],
                   width |-> 3, height |-> 6, offset |-> [x |-> 0, y |-> 0]])
 @@ (BlockTile :> [solid |-> TRUE, mutable |-> FALSE,
                   span |-> [i |-> 2, j |-> 1], ref |-> [i |-> 1, j |-> 0],
                   width |-> 6, height |-> 3, offset |-> [x |-> 0 - 3, y |-> 0]])

(***************************************************************************)
(* Canvace.Matrix.  A cell value is either a number (a tile id) or a string *)
(* of reference coordinates; `num` tells the two apart as typeof does.      *)
(***************************************************************************)
IdCell(id) == [num |-> TRUE, id |-> id, i |-> 0, j |-> 0]
RefCell(i, j) == [num |-> FALSE, id |-> 0, i |-> i, j |-> j]

EmptyMatrix == [data |-> [c \in {} |-> IdCell(0)], layers |-> {}]

MatrixHas(m, i, j, k) == <<i, j, k>> \in DOMAIN m.data
MatrixGet(m, i, j, k) == m.data[<<i, j, k>>]
MatrixPut(m, i, j, k, value) ==
    [data |-> [c \in (DOMAIN m.data) \cup {<<i, j, k>>} |->
                  IF c = <<i, j, k>> THEN value ELSE m.data[c]],
     layers |-> m.layers \cup {k}]
MatrixErase(m, i, j, k) ==
    [m EXCEPT !.data = [c \in (DOMAIN m.data) \ {<<i, j, k>>} |-> m.data[c]]]
MatrixHasLayer(m, k) == k \in m.layers

(***************************************************************************)
(* The tile id a cell resolves to: the cell's own number, or the number in  *)
(* the reference cell its string names (the idiom shared by getGraphNode's  *)
(* walkable, rectangleCollision's solidTileAt and putAt's canClear).        *)
(***************************************************************************)
ResolveId(m, i, j, k) ==
    LET id == MatrixGet(m, i, j, k)
    IN  IF ~id.num THEN MatrixGet(m, id.i, id.j, k).id ELSE id.id

(***************************************************************************)
(* Canvace.View.  The canvas is width x height pixels; mat is the           *)
(* projection matrix of the stage (a cell is 3 pixels wide and high, the    *)
(* layers are not displaced).  Logical coordinates may be real numbers:     *)
(* they are counted in 1/PosDen of a cell.                                  *)
(***************************************************************************)
PosDen == 2
width == 6
height == 6
mat == <<  <<3, 0, 0>>,  <<0, 3, 0>>,  <<0, 0, 1>>  >>

\* Math.round(n / d) for d > 0: halves go up
Round(n, d) == (2 * n + d) \div (2 * d)

projectElement(element, i, j, k) ==
    << Round(mat[1][1] * i + mat[1][2] * j + mat[1][3] * k + element.offset.x * PosDen, PosDen),
       Round(mat[2][1] * i + mat[2][2] * j + mat[2][3] * k + element.offset.y * PosDen, PosDen),
       Round(mat[3][1] * i + mat[3][2] * j + mat[3][3] * k, PosDen) >>

(***************************************************************************)
(* Static stage data: data.entities.                                        *)
(***************************************************************************)
entities ==
    (1 :> [width |-> 2, height |-> 2, offset |-> [x |-> 0, y |-> 0]])

(***************************************************************************)
(* Canvace.Buckets.  The operators below work on the record                 *)
(* [elements, buckets, eraser] of the object's state.                       *)
(*  - An Element is the record of its fields; `removers` holds, for each    *)
(*    closure Bucket.add returned, the bucket and the section of the entry  *)
(*    it deletes.  `handle` is what the caller received: "element" from     *)
(*    addEntity, "remover" or "none" from addTile.                          *)
(*  - A section is a Canvace.MultiSet, kept as the sequence of its entries  *)
(*    in the order fastForEach enumerates them (the order of insertion);    *)
(*    an entry shares the array p of its element and is named by it.        *)
(*  - A closure stored in eraser is reachable only until it is first        *)
(*    called, since it erases its cell; its flag `removed` is then false.   *)
(***************************************************************************)
Bucket == [sections |-> [s \in {} |-> <<>>], minS |-> 0, maxS |-> 0]

getBucket(bs, i, j) == IF <<i, j>> \in DOMAIN bs THEN bs[<<i, j>>] ELSE Bucket

addToBucket(st, e, i, j) ==
    LET p == st.elements[e].p
        b == getBucket(st.buckets, i, j)
        section == IF p[3] \in DOMAIN b.sections THEN b.sections[p[3]] ELSE <<>>
        added == [sections |-> [s \in (DOMAIN b.sections) \cup {p[3]} |->
                                   IF s = p[3] THEN Append(section, e) ELSE b.sections[s]],
                  minS |-> Min(b.minS, p[3]),
                  maxS |-> Max(b.maxS, p[3])]
    IN  [st EXCEPT !.buckets = [key \in (DOMAIN st.buckets) \cup {<<i, j>>} |->
                                   IF key = <<i, j>> THEN added ELSE st.buckets[key]],
                   !.elements[e].removers = Append(@, <<i, j, p[3]>>)]

addToBuckets(st, e) ==
    LET el == st.elements[e]
        bi1 == (el.p[2] + el.element.height) \div height
        bj1 == (el.p[1] + el.element.width) \div width
        st1 == addToBucket(st, e, el.bi, el.bj)
        st2 == IF bi1 > el.bi THEN addToBucket(st1, e, el.bi + 1, el.bj) ELSE st1
        st3 == IF bj1 > el.bj THEN addToBucket(st2, e, el.bi, el.bj + 1) ELSE st2
    IN  IF (bi1 > el.bi) /\ (bj1 > el.bj)
        THEN addToBucket(st3, e, el.bi + 1, el.bj + 1) ELSE st3

\* new Element(element, animation, i, j, k): the new element is the last one
\* (the descriptors of the model all have frames: no MockElement is made)
Element(st, element, i, j, k, handle) ==
    LET p == projectElement(element, i, j, k)
        this == [element |-> element, i |-> i, j |-> j, k |-> k, p |-> p,
                 bi |-> p[2] \div height, bj |-> p[1] \div width,
                 removers |-> <<>>, removed |-> FALSE, handle |-> handle]
    IN  addToBuckets([st EXCEPT !.elements = Append(@, this)], Len(st.elements) + 1)

remove_SkippingLastRemover(st, e) ==
    LET removers == SubSeq(st.elements[e].removers, 1, Len(st.elements[e].removers) - 1)
        Deleted(key, s) == \E n \in DOMAIN removers : removers[n] = <<key[1], key[2], s>>
    IN  [st EXCEPT !.buckets = [key \in DOMAIN st.buckets |->
                      [st.buckets[key] EXCEPT !.sections = [s \in DOMAIN @ |->
                          IF Deleted(key, s) THEN SelectSeq(@[s], LAMBDA x : x # e)
                          ELSE @[s]]]],
                   !.elements[e].removers = <<>>,
                   !.elements[e].removed = TRUE]

remove(st, e) ==
    LET removers == st.elements[e].removers
        Deleted(key, s) == \E n \in DOMAIN removers : removers[n] = <<key[1], key[2], s>>
    IN  [st EXCEPT !.buckets = [key \in DOMAIN st.buckets |->
                      [st.buckets[key] EXCEPT !.sections = [s \in DOMAIN @ |->
                          IF Deleted(key, s) THEN SelectSeq(@[s], LAMBDA x : x # e)
                          ELSE @[s]]]],
                   !.elements[e].removers = <<>>,
                   !.elements[e].removed = TRUE]

updatePosition(st, e, i1, j1, k1) ==
    LET this == st.elements[e]
        p1 == projectElement(this.element, i1, j1, k1)
        moved == [st EXCEPT !.elements[e].i = i1, !.elements[e].j = j1, !.elements[e].k = k1]
        bi1 == this.p[2] \div height
        bj1 == this.p[1] \div width
    IN  IF this.removed THEN st
        ELSE IF (p1[3] # this.p[3]) \/ (bi1 # this.bi) \/ (bj1 # this.bj)
        THEN addToBuckets([remove(moved, e) EXCEPT !.elements[e].removed = FALSE,
                                                   !.elements[e].p = p1,
                                                   !.elements[e].bi = bi1,
                                                   !.elements[e].bj = bj1], e)
        ELSE [moved EXCEPT !.elements[e].p = p1]

\* addTile(id, i, j, k) with integer i, j, k; it returns the remover of the
\* element when the tile is not mutable, and nothing when it is
addTile(st, id, i, j, k) ==
    LET tile == tiles[id]
        st1 == Element(st, [width |-> tile.width, height |-> tile.height,
                            offset |-> tile.offset],
                       i * PosDen, j * PosDen, k * PosDen,
                       IF tile.mutable THEN "none" ELSE "remover")
    IN  IF tile.mutable
        THEN [st1 EXCEPT !.eraser = [c \in (DOMAIN @) \cup {<<i, j, k>>} |->
                                        IF c = <<i, j, k>> THEN Len(st1.elements) ELSE @[c]]]
        ELSE st1

\* removeTile(i, j, k): the state after the call and the value returned
removeTile(st, i, j, k) ==
    IF <<i, j, k>> \in DOMAIN st.eraser
    THEN [st |-> [remove(st, st.eraser[<<i, j, k>>]) EXCEPT
                     !.eraser = [c \in (DOMAIN @) \ {<<i, j, k>>} |-> @[c]]],
          ret |-> TRUE]
    ELSE [st |-> st, ret |-> FALSE]

\* the exception a call threw: its message and the id it carries
NotThrown == [message |-> "none", id |-> 0]

\* Element.prototype.replace(id): the state after the call and the exception
replace(st, e, id) ==
    LET this == st.elements[e]
    IN  IF this.removed THEN [st |-> st, thrown |-> NotThrown]
        ELSE IF id \notin DOMAIN entities
        THEN [st |-> st, thrown |-> [message |-> "invalid entity ID", id |-> id]]
        ELSE [st |-> Element(remove(st, e), entities[id], this.i, this.j, this.k, "element"),
              thrown |-> NotThrown]

\* replaceTile(i, j, k, newTileId): the closure of eraser is called, then
\* addTile, which throws before it adds anything when the id is not a tile's
replaceTile(st, i, j, k, newTileId) ==
    IF <<i, j, k>> \in DOMAIN st.eraser
    THEN LET erased == removeTile(st, i, j, k).st
         IN  IF newTileId \in DOMAIN tiles
             THEN [st |-> addTile(erased, newTileId, i, j, k), thrown |-> NotThrown]
             ELSE [st |-> erased,
                   thrown |-> [message |-> "invalid tile ID", id |-> newTileId]]
    ELSE [st |-> st, thrown |-> NotThrown]

\* the test of forEachElement's yieldElement on an entry of element el
yieldElement(el, o) ==
    /\ el.p[1] < (0 - o.x) + width
    /\ el.p[2] < (0 - o.y) + height
    /\ el.p[1] + el.element.width >= 0 - o.x
    /\ el.p[2] + el.element.height >= 0 - o.y

\* forEachElement(action): the elements whose entries are passed to action,
\* in the order of the calls.  The empty buckets getBucket creates here are
\* not stored: getBucket yields the same empty bucket on the next access.
forEachElement(st, o) ==
    LET i == (0 - o.y) \div height
        j == (0 - o.x) \div width
        four == << getBucket(st.buckets, i, j), getBucket(st.buckets, i, j + 1),
                   getBucket(st.buckets, i + 1, j), getBucket(st.buckets, i + 1, j + 1) >>
        minS == Min(Min(four[1].minS, four[2].minS), Min(four[3].minS, four[4].minS))
        maxS == Max(Max(four[1].maxS, four[2].maxS), Max(four[3].maxS, four[4].maxS))
        enumerateSection(b, s) == IF s \in DOMAIN b.sections THEN b.sections[s] ELSE <<>>
        Layer(s) == enumerateSection(four[1], s) \o enumerateSection(four[2], s)
                    \o enumerateSection(four[3], s) \o enumerateSection(four[4], s)
        RECURSIVE Layers(_)
        Layers(s) == IF s > maxS THEN <<>> ELSE Layer(s) \o Layers(s + 1)
    IN  SelectSeq(Layers(minS), LAMBDA e : yieldElement(st.elements[e], o))

BucketsState == [elements |-> elements, buckets |-> buckets, eraser |-> eraser]

NoBuckets == [elements |-> <<>>, buckets |-> [key \in {} |-> Bucket],
              eraser |-> [c \in {} |-> 0]]

BucketsIdle ==
    /\ elements = NoBuckets.elements
    /\ buckets = NoBuckets.buckets
    /\ eraser = NoBuckets.eraser
    /\ origin = [x |-> 0, y |-> 0]
    /\ bc = [called |-> FALSE, out |-> <<>>, thrown |-> NotThrown]
    /\ instances = {}

(***************************************************************************)
(* Canvace.TileMap: the map loader of the constructor and putAt.            *)
(* A string of reference coordinates is "i j k" when the loader writes it   *)
(* and "i j" when putAt does; every reader takes the first two numbers, so  *)
(* both are RefCell(i, j).                                                  *)
(***************************************************************************)
\* the cells a tile covers when its reference cell is (i, j), in the order
\* of the two nested loops
Covered(id, i, j) ==
    LET layout == tiles[id]
    IN  [n \in 1 .. layout.span.i * layout.span.j |->
            << i - layout.ref.i + ((n - 1) \div layout.span.j),
               j - layout.ref.j + ((n - 1) % layout.span.j) >>]

\* the loader: map is the sequence of the entries <<i, j, k, id>> of data.map
\* in the order `for in` enumerates them
RECURSIVE TileMap(_, _, _)
TileMap(map, m, st) ==
    IF map = <<>> THEN [matrix |-> m, st |-> st]
    ELSE LET i == Head(map)[1]
             j == Head(map)[2]
             k == Head(map)[3]
             id == Head(map)[4]
             cells == Covered(id, i, j)
             RECURSIVE PutRefs(_, _)
             PutRefs(mm, n) ==
                 IF n > Len(cells) THEN mm
                 ELSE PutRefs(MatrixPut(mm, cells[n][1], cells[n][2], k, RefCell(i, j)), n + 1)
         IN  TileMap(Tail(map), MatrixPut(PutRefs(m, 1), i, j, k, IdCell(id)),
                     addTile(st, id, i, j, k))

\* getAt(i, j, k): the tile id as [number |-> TRUE, id |-> id], or the value
\* false as [number |-> FALSE, id |-> 0]
getAt(m, i, j, k) ==
    IF MatrixHas(m, i, j, k) /\ MatrixGet(m, i, j, k).num
    THEN [number |-> TRUE, id |-> MatrixGet(m, i, j, k).id]
    ELSE [number |-> FALSE, id |-> 0]

\* getAt2(i, j, k, alwaysId): what the call gives.  type is "number" for a
\* tile id, "object" for {id, i, j}, "id" for the value of the cell the
\* string names when alwaysId is set, and "TypeError" when split is called on
\* undefined; idType is the typeof of the field or value id
getAt2(m, i, j, k, alwaysId) ==
    IF ~MatrixHas(m, i, j, k)
    THEN [type |-> "TypeError", idType |-> "none", id |-> 0, i |-> 0, j |-> 0]
    ELSE LET value == MatrixGet(m, i, j, k)
             idType == IF ~MatrixHas(m, value.i, value.j, k) THEN "undefined"
                       ELSE IF MatrixGet(m, value.i, value.j, k).num THEN "number"
                       ELSE "string"
             id == IF idType = "number" THEN MatrixGet(m, value.i, value.j, k).id ELSE 0
         IN  IF value.num
             THEN [type |-> "number", idType |-> "number", id |-> value.id, i |-> 0, j |-> 0]
             ELSE IF alwaysId
             THEN [type |-> "id", idType |-> idType, id |-> id, i |-> 0, j |-> 0]
             ELSE [type |-> "object", idType |-> idType, id |-> id,
                   i |-> value.i, j |-> value.j]

\* putAt's canClear(i, j): "true", "false", or "TypeError" when the code
\* calls split on undefined or reads mutable of undefined
canClear(m, i, j, k) ==
    IF ~MatrixHas(m, i, j, k) THEN "TypeError"
    ELSE LET id == MatrixGet(m, i, j, k)
         IN  IF id.num THEN (IF tiles[id.id].mutable THEN "true" ELSE "false")
             ELSE IF ~MatrixHas(m, id.i, id.j, k) THEN "TypeError"
             ELSE IF ~MatrixGet(m, id.i, id.j, k).num THEN "TypeError"
             ELSE IF tiles[MatrixGet(m, id.i, id.j, k).id].mutable THEN "true" ELSE "false"

\* putAt(i, j, k, id): the matrix and the buckets when the call ends, and how
\* it ends: ret is "true" or "false" for the value returned, "TypeError" or
\* "invalid tile ID" for the exception thrown
putAt(m, st, i, j, k, id) ==
    LET cells == Covered(id, i, j)
        blocked == {n \in DOMAIN cells : canClear(m, cells[n][1], cells[n][2], k) # "true"}
        first == CHOOSE n \in blocked : \A o \in blocked : n <= o
        \* the second pair of loops, from the n-th cell on
        RECURSIVE Clear(_, _, _)
        Clear(mm, ss, n) ==
            IF n > Len(cells) THEN [matrix |-> mm, st |-> ss, ret |-> "true"]
            ELSE IF ~MatrixHas(mm, cells[n][1], cells[n][2], k)
            THEN [matrix |-> mm, st |-> ss, ret |-> "TypeError"]
            ELSE LET value == MatrixGet(mm, cells[n][1], cells[n][2], k)
                     i1 == IF value.num THEN cells[n][1] ELSE value.i
                     j1 == IF value.num THEN cells[n][2] ELSE value.j
                     removed == removeTile(ss, i1, j1, k)
                 IN  IF removed.ret
                     THEN Clear(MatrixPut(MatrixErase(mm, i1, j1, k),
                                          cells[n][1], cells[n][2], k, RefCell(i, j)),
                                removed.st, n + 1)
                     ELSE [matrix |-> mm, st |-> ss, ret |-> "false"]
        cleared == Clear(m, st, 1)
    IN  IF id \notin DOMAIN tiles
        THEN [matrix |-> m, st |-> st, ret |-> "invalid tile ID"]
        ELSE IF blocked # {}
        THEN [matrix |-> m, st |-> st,
              ret |-> canClear(m, cells[first][1], cells[first][2], k)]
        ELSE IF cleared.ret # "true" THEN cleared
        ELSE [matrix |-> MatrixPut(cleared.matrix, i, j, k, IdCell(id)),
              st |-> addTile(cleared.st, id, i, j, k),
              ret |-> "true"]

\* pc: the arguments of the last call, how it ended, and the number n of
\* calls made so far
PutAtIdle == pc = [n |-> 0, i |-> 0, j |-> 0, k |-> 0, id |-> 0, ret |-> "none"]

(***************************************************************************)
(* Canvace.Stage.Instance.rectangleCollision: the rectangle against the     *)
(* bounding box of the instance.  Coordinates are counted in 1/Unit of a    *)
(* cell, and the 0.001 of the clamp is one of them.                         *)
(***************************************************************************)
\* entity.box of the instance's entity
box == [i0 |-> 0, j0 |-> 0, iSpan |-> Unit, jSpan |-> Unit]

instanceRectangleCollision(instance, i, j, di, dj, Di, Dj) ==
    LET bi0 == instance.position.i + box.i0
        bj0 == instance.position.j + box.j0
        bi1 == bi0 + box.iSpan
        bj1 == bj0 + box.jSpan
        vi == IF i < bi0
              THEN IF i + di > bi0
                   THEN IF j < bj0
                        THEN IF (j + dj > bj0) /\ (i + di < bi1) THEN bi0 - i - di ELSE 0
                        ELSE IF (j < bj1) /\ (i + di < bi1) THEN bi0 - i - di ELSE 0
                   ELSE 0
              ELSE IF i < bi1
              THEN IF j < bj0
                   THEN IF j + dj > bj0 THEN bi1 - i ELSE 0
                   ELSE IF (j < bj1) /\ (i + di > bi1) THEN bi1 - i ELSE 0
              ELSE 0
        vj == IF i < bi0
              THEN IF i + di > bi0
                   THEN IF j < bj0
                        THEN IF (j + dj > bj0) /\ (j + dj < bj1) THEN bj0 - j - dj ELSE 0
                        ELSE IF (j < bj1) /\ (j + dj > bj1) THEN bj0 - j - dj ELSE 0
                   ELSE 0
              ELSE IF i < bi1
              THEN IF j < bj0
                   THEN IF (j + dj > bj0) /\ (j + dj < bj1) THEN bj0 - j - dj ELSE 0
                   ELSE IF (j < bj1) /\ (j + dj > bj1) THEN bj1 - j ELSE 0
              ELSE 0
    IN  [i |-> IF Abs(vi) > Abs(instance.position.i - instance.previousPosition.i - Di) + 1
               THEN 0 ELSE vi,
         j |-> IF Abs(vj) > Abs(instance.position.j - instance.previousPosition.j - Dj) + 1
               THEN 0 ELSE vj]

InstanceIdle ==
    ic = [called |-> FALSE, position |-> [i |-> 0, j |-> 0],
          previousPosition |-> [i |-> 0, j |-> 0],
          i |-> 0, j |-> 0, di |-> 0, dj |-> 0, Di |-> 0, Dj |-> 0, v |-> [i |-> 0, j |-> 0]]

(***************************************************************************)
(* Canvace.FrameTable: one Animation.  A frame is [id, hasDuration,         *)
(* duration]; hasDuration is frames[i].hasOwnProperty('duration').  Times   *)
(* are whole milliseconds.  The id 0 stands for the value undefined a       *)
(* lookup of a missing key of the table gives; frame ids are positive.      *)
(***************************************************************************)
RECURSIVE gcd(_, _)
gcd(a, b) == IF b = 0 THEN a ELSE gcd(b, a % b)

\* the constructor with its test of looping left out
Animation_AlwaysLooping(frames) ==
    LET RECURSIVE Scan(_, _)
        Scan(n, acc) ==
            IF n > Len(frames) THEN acc
            ELSE IF frames[n].hasDuration
            THEN Scan(n + 1, [acc EXCEPT !.partialUnit = gcd(@, frames[n].duration),
                                         !.fullDuration = @ + frames[n].duration])
            ELSE Scan(n + 1, [acc EXCEPT !.lastFrameId = frames[n].id])
    IN  Scan(1, [static |-> Len(frames) < 2, partialUnit |-> 0, fullDuration |-> 0,
                 looping |-> TRUE, lastFrameId |-> 0])

\* Animation(frames): the locals the loop over the frames computes
Animation(frames) ==
    LET RECURSIVE Scan(_, _)
        Scan(n, acc) ==
            IF n > Len(frames) THEN acc
            ELSE IF frames[n].hasDuration
            THEN Scan(n + 1, [acc EXCEPT !.partialUnit = gcd(@, frames[n].duration),
                                         !.fullDuration = @ + frames[n].duration])
            ELSE Scan(n + 1, [acc EXCEPT !.looping = FALSE,
                                         !.lastFrameId = frames[n].id])
    IN  IF Len(frames) < 2
        THEN [static |-> TRUE, partialUnit |-> 0, fullDuration |-> 0,
              looping |-> TRUE, lastFrameId |-> 0]
        ELSE Scan(1, [static |-> FALSE, partialUnit |-> 0, fullDuration |-> 0,
                      looping |-> TRUE, lastFrameId |-> 0])

\* synchronize(period): the unit and the table it fills
synchronize(frames, a, period) ==
    LET unit == gcd(a.partialUnit, period)
        RECURSIVE Fill(_, _, _, _)
        Fill(time, frameTime, frameIndex, table) ==
            IF time >= a.fullDuration THEN table
            ELSE LET next == /\ frames[frameIndex].hasDuration
                             /\ frameTime > frames[frameIndex].duration
                     index == IF next THEN frameIndex + 1 ELSE frameIndex
                 IN  Fill(time + unit, (IF next THEN 0 ELSE frameTime) + unit, index,
                          table @@ (time :> frames[index].id))
    IN  [unit |-> unit, table |-> Fill(0, 0, 1, <<>>)]

\* the looping animation function without the remainder by fullDuration
animation_WithoutRemainder(a, timestamp) ==
    LET Lookup(key) == IF key \in DOMAIN a.table THEN a.table[key] ELSE 0
    IN  IF a.static THEN a.frames[1].id
        ELSE IF a.looping
        THEN IF a.fullDuration = 0 THEN 0
             ELSE Lookup((timestamp \div a.unit) * a.unit)
        ELSE IF timestamp >= a.fullDuration THEN a.lastFrameId
        ELSE Lookup((timestamp \div a.unit) * a.unit)

\* animation(timestamp): the frame id returned (a remainder by 0 is NaN, and
\* the table has no such key)
animation(a, timestamp) ==
    LET Lookup(key) == IF key \in DOMAIN a.table THEN a.table[key] ELSE 0
    IN  IF a.static THEN a.frames[1].id
        ELSE IF a.looping
        THEN IF a.fullDuration = 0 THEN 0
             ELSE Lookup(((timestamp % a.fullDuration) \div a.unit) * a.unit)
        ELSE IF timestamp >= a.fullDuration THEN a.lastFrameId
        ELSE Lookup((timestamp \div a.unit) * a.unit)

FrameTableIdle ==
    fc = [frames |-> <<>>, static |-> TRUE, partialUnit |-> 0, fullDuration |-> 0,
          looping |-> TRUE, lastFrameId |-> 0, unit |-> 0, table |-> <<>>,
          called |-> FALSE, t |-> 0, out |-> 0]

(***************************************************************************)
(* Canvace.MultiSet.  `elements` maps the ids of the insertions still       *)
(* contained to the elements inserted; nextId is never reset.  ms.called    *)
(* holds the ids whose remover, the one add returned, was called, and       *)
(* ms.out what the last call of a remover returned.                         *)
(***************************************************************************)
\* new Canvace.MultiSet()
MultiSetIdle ==
    ms = [elements |-> [id \in {} |-> ""], nextId |-> 0, count |-> 0,
          called |-> {}, out |-> FALSE]

\* a remover that deletes the element and leaves the count as it is
remover_WithoutCountUpdate(m, id) ==
    IF id \in DOMAIN m.elements
    THEN [ms |-> [m EXCEPT !.elements = [n \in (DOMAIN m.elements) \ {id} |->
                                            m.elements[n]]],
          result |-> TRUE]
    ELSE [ms |-> m, result |-> FALSE]

\* the function add returns for the insertion `id`, and the one forEach
\* makes for it: the container it leaves and the value it returns
remover(m, id) ==
    IF id \in DOMAIN m.elements
    THEN [ms |-> [m EXCEPT !.elements = [n \in (DOMAIN m.elements) \ {id} |->
                                            m.elements[n]],
                           !.count = m.count - 1],
          result |-> TRUE]
    ELSE [ms |-> m, result |-> FALSE]

(***************************************************************************)
(* Canvace.RenderLoop.  rl.pending is the set of the callbacks the browser  *)
(* holds, by the id requestAnimationFrame or setInterval returned;          *)
(* rl.todo is the sequence of the calls updateLoop still has to make in     *)
(* the iteration in progress and rl.done the calls it made.  A call is      *)
(* [call, instance], instance being 0 for the calls that are not made on    *)
(* an instance.                                                             *)
(***************************************************************************)
MaxSteps == 2       \* steps of one iteration (delta / period, rounded up)
MaxPending == 2     \* callbacks the browser holds at a time

RenderLoop(type, userTick, synchronizeView) ==
    [type |-> type, userTick |-> userTick, synchronizeView |-> synchronizeView,
     running |-> FALSE, banned |-> FALSE, token |-> 0, pending |-> {},
     done |-> <<>>, todo |-> <<>>]

RenderLoopIdle == rl = RenderLoop("request", FALSE, FALSE)

\* updateLoop that renders the frame before anything else
updateLoop_RenderFirst(l, n) ==
    LET instancesWithPhysics == {1, 2}
        each(name) == [i \in 1 .. Cardinality(instancesWithPhysics) |->
                          [call |-> name, instance |-> i]]
        one(name) == <<[call |-> name, instance |-> 0]>>
        step == each("tick") \o (IF l.userTick THEN one("userTick") ELSE <<>>)
    IN  one("render")
        \o [c \in 1 .. n * Len(step) |-> step[((c - 1) % Len(step)) + 1]]
        \o each("update")
        \o (IF l.synchronizeView THEN one("synchronizeView") ELSE <<>>)

\* the calls of updateLoop when the loop over delta makes n steps:
\* Stage.tick and Stage.update call each instance with physics in turn
updateLoop(l, n) ==
    LET instancesWithPhysics == {1, 2}
        each(name) == [i \in 1 .. Cardinality(instancesWithPhysics) |->
                          [call |-> name, instance |-> i]]
        one(name) == <<[call |-> name, instance |-> 0]>>
        step == each("tick") \o (IF l.userTick THEN one("userTick") ELSE <<>>)
    IN  [c \in 1 .. n * Len(step) |-> step[((c - 1) % Len(step)) + 1]]
        \o each("update")
        \o (IF l.synchronizeView THEN one("synchronizeView") ELSE <<>>)
        \o one("render")

\* the id requestAnimationFrame or setInterval returns: one that names no
\* callback the browser holds and that the loop does not hold either
requestId(l) ==
    CHOOSE n \in 1 .. MaxPending + 2 :
       /\ n \notin l.pending \cup {l.token}
       /\ \A m \in 1 .. n - 1 : m \in l.pending \cup {l.token}

\* run that leaves `banned` as it is
run_KeepingBanned(l) ==
    IF ~l.running \/ l.banned
    THEN [l EXCEPT !.running = TRUE,
                   !.token = requestId(l), !.pending = @ \cup {requestId(l)}]
    ELSE l

\* requestBasedLoop and intervalBasedLoop, up to the callback they schedule
run(l) ==
    IF ~l.running \/ l.banned
    THEN [l EXCEPT !.running = TRUE, !.banned = FALSE,
                   !.token = requestId(l), !.pending = @ \cup {requestId(l)}]
    ELSE l

suspend(l) ==
    IF l.running /\ ~l.banned
    THEN [l EXCEPT !.pending = @ \ {l.token}, !.banned = TRUE]
    ELSE l

isSuspended(l) == l.running /\ l.banned

stop(l) ==
    IF l.running
    THEN [l EXCEPT !.pending = @ \ {l.token}, !.running = FALSE, !.banned = TRUE]
    ELSE l

isStopped(l) == ~l.running /\ l.banned

(***************************************************************************)
(* Canvace.List.  A node is named by its place in ls.nodes, 0 standing for  *)
(* null; `previous` and `next` are the fields of the node object.  ls.kept  *)
(* is not a field of the list: it records the nodes the calls made so far   *)
(* have put in the list and not taken out, from the first to the last.      *)
(***************************************************************************)
\* new Canvace.List()
ListIdle ==
    ls = [nodes |-> <<>>, head |-> 0, tail |-> 0, count |-> 0, kept |-> <<>>]

\* forEach(action) with an action that never returns false, and the walk
\* from getHead() along next(): the nodes visited, in order
forEach(l) ==
    LET RECURSIVE Walk(_, _)
        Walk(node, left) ==
            IF node = 0 \/ left = 0 THEN <<>>
            ELSE <<node>> \o Walk(l.nodes[node].next, left - 1)
    IN  Walk(l.head, Len(l.nodes) + 1)

\* the walk from getTail() along previous()
backwards(l) ==
    LET RECURSIVE Walk(_, _)
        Walk(node, left) ==
            IF node = 0 \/ left = 0 THEN <<>>
            ELSE <<node>> \o Walk(l.nodes[node].previous, left - 1)
    IN  Walk(l.tail, Len(l.nodes) + 1)

(***************************************************************************)
(* Canvace.ParametricStateMachine, on machines of two states "a" and "b"    *)
(* where "a" declares the transition `go` and "b" the transition `back`,    *)
(* both as arrays.  A state is an object, the same at every entry, or a     *)
(* function that makes the state object, and with it the array, anew at     *)
(* every entry.  sm.decl holds the arrays as declared, sm.arrays what the   *)
(* array objects hold now.                                                  *)
(***************************************************************************)
MachineIdle == sm = <<>>

\* setState(name) for the array `name` held by the state object of `from`
setState(m, from, name) ==
    IF name = <<>> THEN [m EXCEPT !.thrown = "invalid transition"]
    ELSE IF name[1] \notin DOMAIN m.kind THEN [m EXCEPT !.thrown = "invalid state"]
    ELSE IF m.kind[name[1]] # "function"
    THEN [m EXCEPT !.currentStateName = name[1], !.parameters = <<>>,
                   !.thrown = "none"]
    ELSE \* parameters.shift(), then states[name].apply(currentState, parameters)
         [m EXCEPT !.arrays = [[m.arrays EXCEPT ![from] = Tail(name)]
                                  EXCEPT ![name[1]] = m.decl[name[1]]],
                   !.currentStateName = name[1], !.parameters = Tail(name),
                   !.thrown = "none"]

\* the transition method: `go` is a property of state "a", `back` of "b"
transition(m, t) ==
    LET from == IF t = "go" THEN "a" ELSE "b"
    IN  IF from = m.currentStateName
        THEN setState(m, from, m.arrays[from])
        ELSE [m EXCEPT !.thrown = "none"]

(***************************************************************************)
(* The character of the Ladybug game: the `states` machine of ladybug.js,   *)
(* a ParametricStateMachine whose states are all functions of their         *)
(* parameters except `dying`.  lb holds the machine's current state and     *)
(* parameters, the closure variable `armed`, the i component of the shared  *)
(* uniformVelocity object and the i, j components of the shared velocity    *)
(* object (in thousandths: 3125 is 3.125), the entity the character         *)
(* instance shows, whether that instance has been removed, the life gauge,  *)
(* the keys the Keyboard holds as pressed, and what the last call of a      *)
(* transition method threw ("" when it returned).                           *)
(***************************************************************************)
LadybugIdle == lb = <<>>

\* the exception of Instance.replaceWith for a removed instance
Removed == "the instance cannot be replaced because it has been removed"

faceLeft(l, targetState) ==
    IF l.removed THEN [l EXCEPT !.thrown = Removed]
    ELSE [l EXCEPT !.entity = <<"left", IF l.armed THEN "armed" ELSE "unarmed", "still">>,
                   !.uniformVelocity = 0,
                   !.currentStateName = targetState, !.parameters = <<"left">>]

faceRight(l, targetState) ==
    IF l.removed THEN [l EXCEPT !.thrown = Removed]
    ELSE [l EXCEPT !.entity = <<"right", IF l.armed THEN "armed" ELSE "unarmed", "still">>,
                   !.uniformVelocity = 0,
                   !.currentStateName = targetState, !.parameters = <<"right">>]

\* walkLeft without the assignment to uniformVelocity.i
walkLeft_KeepingVelocity(l, targetState) ==
    IF l.removed THEN [l EXCEPT !.thrown = Removed]
    ELSE [l EXCEPT !.entity = <<"left", IF l.armed THEN "armed" ELSE "unarmed", "walking">>,
                   !.currentStateName = targetState, !.parameters = <<"left">>]

walkLeft(l, targetState) ==
    IF l.removed THEN [l EXCEPT !.thrown = Removed]
    ELSE [l EXCEPT !.entity = <<"left", IF l.armed THEN "armed" ELSE "unarmed", "walking">>,
                   !.uniformVelocity = -3125,
                   !.currentStateName = targetState, !.parameters = <<"left">>]

walkRight(l, targetState) ==
    IF l.removed THEN [l EXCEPT !.thrown = Removed]
    ELSE [l EXCEPT !.entity = <<"right", IF l.armed THEN "armed" ELSE "unarmed", "walking">>,
                   !.uniformVelocity = 3125,
                   !.currentStateName = targetState, !.parameters = <<"right">>]

\* states[t](): the transition method t of the machine.  A transition the
\* current state does not have is ignored; an array enters its state; a
\* function is called and the state it returns, if any, is entered.
states(l0, t) ==
    LET l == [l0 EXCEPT !.thrown = ""]
        s == l.currentStateName
        direction == l.parameters[1]
        skin == IF l.armed THEN "armed" ELSE "unarmed"
        enter(r, name, parameters) ==
            [r EXCEPT !.currentStateName = name, !.parameters = parameters]
        hurtTo(side, name, parameters) ==
            IF l.removed THEN [l EXCEPT !.thrown = Removed]
            ELSE enter([l EXCEPT !.entity = <<side, skin, "hurt">>,
                                 !.velocity = [i |-> IF side = "left" THEN 3125 ELSE -3125,
                                               j |-> -12500],
                                 !.uniformVelocity = 0],
                       name, parameters)
        hurtLeft == hurtTo("left", "hurt", <<"left">>)
        hurtRight == hurtTo("right", "hurt", <<"right">>)
        hurtLeftThenWalk(d) == hurtTo("left", "hurtThenWalk", <<"left", d>>)
        hurtRightThenWalk(d) == hurtTo("right", "hurtThenWalk", <<"right", d>>)
        \* the character is forked into the dying one and removed
        die(d) ==
            enter([l EXCEPT !.velocity.j = -12500, !.uniformVelocity = 0,
                            !.removed = TRUE],
                  "dying", <<>>)
        arm(d, mode) ==
            IF l.removed THEN [l EXCEPT !.thrown = Removed]
            ELSE [l EXCEPT !.entity = <<d, "armed", mode>>, !.armed = TRUE]
        \* a bullet is made when armed; the character is left as it is
        fire(d) == l
        startJump(name) == enter([l EXCEPT !.velocity.j = -12500], name, <<direction>>)
        bounce == IF l.velocity.j >= 0 THEN [l EXCEPT !.velocity.j = -12500] ELSE l
        \* a state whose character stands: the keys start a walk
        standing(moving, pose) ==
            CASE t = "startLeft" -> walkLeft(l, moving)
              [] t = "stopLeft" -> walkRight(l, moving)
              [] t = "startRight" -> walkRight(l, moving)
              [] t = "stopRight" -> walkLeft(l, moving)
              [] t = "hurtLeft" -> hurtLeft
              [] t = "hurtRight" -> hurtRight
              [] t = "die" -> die(direction)
              [] t = "arm" -> arm(direction, "still")
              [] t = "fire" -> fire(direction)
              [] OTHER -> pose
        \* a state whose character walks: the keys stop the walk
        walking(standstill, pose) ==
            CASE t = "startLeft" -> faceRight(l, standstill)
              [] t = "stopLeft" -> faceLeft(l, standstill)
              [] t = "startRight" -> faceLeft(l, standstill)
              [] t = "stopRight" -> faceRight(l, standstill)
              [] t = "hurtLeft" -> hurtLeftThenWalk(direction)
              [] t = "hurtRight" -> hurtRightThenWalk(direction)
              [] t = "die" -> die(direction)
              [] t = "arm" -> arm(direction, "walking")
              [] t = "fire" -> fire(direction)
              [] OTHER -> pose
    IN  CASE s = "still" ->
               standing("walking",
                        CASE t = "startJump" -> startJump("jumping")
                          [] t = "fall" -> enter(l, "falling", <<direction>>)
                          [] OTHER -> l)
          [] s = "walking" ->
               walking("still",
                       CASE t = "startJump" -> startJump("jumpingAndMoving")
                         [] t = "fall" -> enter(l, "fallingAndMoving", <<direction>>)
                         [] OTHER -> l)
          [] s = "jumping" ->
               standing("jumpingAndMoving",
                        CASE t = "stopJump" -> enter(l, "falling", <<direction>>)
                          [] t = "land" -> bounce
                          [] OTHER -> l)
          [] s = "jumpingAndMoving" ->
               walking("jumping",
                       CASE t = "stopJump" -> enter(l, "fallingAndMoving", <<direction>>)
                         [] t = "land" -> bounce
                         [] OTHER -> l)
          [] s = "falling" ->
               standing("fallingAndMoving",
                        CASE t = "startJump" -> enter(l, "jumping", <<direction>>)
                          [] t = "land" -> enter(l, "still", <<direction>>)
                          [] OTHER -> l)
          [] s = "fallingAndMoving" ->
               walking("falling",
                       CASE t = "startJump" -> enter(l, "jumpingAndMoving", <<direction>>)
                         [] t = "land" -> enter(l, "walking", <<direction>>)
                         [] OTHER -> l)
          [] s = "hurt" ->
               (CASE t = "startLeft" -> enter(l, "hurtThenWalk", <<direction, "left">>)
                 [] t = "startRight" -> enter(l, "hurtThenWalk", <<direction, "right">>)
                 [] t = "land" ->
                      IF l.removed THEN [l EXCEPT !.thrown = Removed]
                      ELSE enter([l EXCEPT !.entity = <<direction, skin, "still">>,
                                           !.velocity = [i |-> 0, j |-> 0]],
                                 "still", <<direction>>)
                 [] t = "hurtLeft" -> hurtLeft
                 [] t = "hurtRight" -> hurtRight
                 [] t = "die" -> die(direction)
                 [] t = "arm" -> arm(direction, "hurt")
                 [] OTHER -> l)
          [] s = "hurtThenWalk" ->
               LET hurtDirection == l.parameters[1]
                   walkDirection == l.parameters[2]
               IN  (CASE t \in {"stopLeft", "stopRight"} ->
                          enter(l, "hurt", <<hurtDirection>>)
                     [] t = "land" ->
                          IF l.removed THEN [l EXCEPT !.thrown = Removed]
                          ELSE enter([l EXCEPT !.entity = <<walkDirection, skin, "walking">>,
                                               !.velocity = [i |-> 0, j |-> 0],
                                               !.uniformVelocity =
                                                   IF walkDirection = "left"
                                                   THEN -3125 ELSE 3125],
                                     "walking", <<walkDirection>>)
                     [] t = "hurtLeft" -> hurtLeft
                     [] t = "hurtRight" -> hurtRight
                     [] t = "die" -> die(hurtDirection)
                     [] t = "arm" -> arm(hurtDirection, "hurt")
                     [] OTHER -> l)
          [] OTHER -> l     \* dying: {}

(***************************************************************************)
(* Canvace.Loader.  ld.imageset and ld.soundset hold, for every image and   *)
(* sound, whether the loader has no object for it ("none"), holds one that  *)
(* is still loading, one that has loaded, or one whose loading failed;      *)
(* ld.imageListener and ld.soundListener tell which call of loadAssets      *)
(* bound its progress function to the object (0: none).  ld.calls holds,    *)
(* for every call of loadAssets, the frames and the sounds it asked for,    *)
(* the `count` of its doProgress and of its progress closure, how many      *)
(* times its closures invoked the `complete` callback, and whether they     *)
(* did so while one of its assets was still loading.                        *)
(***************************************************************************)
LoaderIdle == ld = <<>>

ImageIds == {1, 2}

SoundIds == {1}

\* an image or a sound the call c asked for is still loading
pendingAssets(l, c) ==
    \/ \E n \in DOMAIN l.calls[c].images :
          l.imageset[l.calls[c].images[n]] = "loading"
    \/ \E i \in l.calls[c].sounds : l.soundset[i] = "loading"

\* loadFinished(), reached from the closures of the call c
loadFinished(l, c) ==
    IF l.imagesLoaded /\ l.soundsLoaded
    THEN [l EXCEPT !.calls[c].complete = @ + 1,
                   !.calls[c].early = @ \/ pendingAssets(l, c)]
    ELSE l

\* the doProgress closure of the call c
doProgress(l, c) ==
    LET counted == [l EXCEPT !.calls[c].imageCount = @ + 1]
    IN  IF counted.calls[c].imageCount >= Len(l.calls[c].images)
        THEN loadFinished([counted EXCEPT !.imagesLoaded = TRUE], c)
        ELSE counted

\* the progress closure of the call c
progress(l, c) ==
    LET counted == [l EXCEPT !.calls[c].soundCount = @ + 1]
    IN  IF counted.calls[c].soundCount >= Cardinality(l.calls[c].sounds)
        THEN loadFinished([counted EXCEPT !.soundsLoaded = TRUE], c)
        ELSE counted

\* loadImages(data) for the call c: the frames of the tiles and of the
\* entities, in order; an id in imageset counts at once, another one gets an
\* Image with doProgress bound to its load event
loadImages(l, c) ==
    LET frames == l.calls[c].images
        RECURSIVE batchImages(_, _)
        batchImages(r, n) ==
            IF n > Len(frames) THEN r
            ELSE LET id == frames[n]
                 IN  batchImages(IF r.imageset[id] # "none"
                                 THEN doProgress(r, c)
                                 ELSE [r EXCEPT !.imageset[id] = "loading",
                                                !.imageListener[id] = c],
                                 n + 1)
    IN  IF Len(frames) = 0 THEN doProgress(l, c) ELSE batchImages(l, 1)

\* loadSounds(sources) for the call c; `suitable` tells whether the browser
\* can play a source of the sounds
loadSounds(l, c, suitable) ==
    LET sources == l.calls[c].sounds
        RECURSIVE each(_, _)
        each(r, left) ==
            IF left = {} THEN r
            ELSE LET i == CHOOSE x \in left : \A y \in left : x <= y
                 IN  each(IF r.soundset[i] # "none" THEN progress(r, c)
                          ELSE IF ~suitable THEN progress(r, c)
                          ELSE [r EXCEPT !.soundset[i] = "loading",
                                         !.soundListener[i] = c],
                          left \ {i})
    IN  IF sources = {} THEN progress(l, c) ELSE each(l, sources)

\* loadAssets(imagesData, soundsData); a data that is not given is
\* undefined or null
loadAssets(l0, imagesData, soundsData, suitable) ==
    LET c == Len(l0.calls) + 1
        l == [l0 EXCEPT !.calls = Append(@,
                            [images |-> IF imagesData.given THEN imagesData.frames
                                        ELSE <<>>,
                             sounds |-> IF soundsData.given THEN soundsData.sources
                                        ELSE {},
                             imageCount |-> 0, soundCount |-> 0,
                             complete |-> 0, early |-> FALSE]),
                        !.imagesLoaded = ~imagesData.given,
                        !.soundsLoaded = ~soundsData.given]
    IN  IF l.imagesLoaded /\ l.soundsLoaded THEN loadFinished(l, c)
        ELSE LET one == IF l.imagesLoaded # l.soundsLoaded
                        THEN [l EXCEPT !.jobCount = 1] ELSE l
                 images == IF ~one.imagesLoaded THEN loadImages(one, c) ELSE one
             IN  IF ~images.soundsLoaded THEN loadSounds(images, c, suitable)
                 ELSE images

(***************************************************************************)
(* Canvace.TileMap.getGraphNode: the node of cell (i, j) of layer k for     *)
(* the target (i1, j1).  A node is [id, heuristic, neighbors]; neighbors    *)
(* is the sequence of <<edge label, neighbor id>> in the order `for in`     *)
(* enumerates the integer keys, ascending.                                  *)
(***************************************************************************)
OffI == <<-1, -1, -1, 0, 0, 0, 1, 1, 1>>
OffJ == <<-1, 0, 1, -1, 0, 1, -1, 0, 1>>

\* walkable without the test of the solid flag
walkable_IgnoringSolid(m, i, j, k) == MatrixHas(m, i, j, k)

walkable(m, i, j, k) ==
    IF MatrixHas(m, i, j, k)
    THEN ~tiles[ResolveId(m, i, j, k)].solid
    ELSE FALSE

\* the corner test with || in place of &&
DiagonalAllowed_EitherSide(m, i, j, i1, j1, k) ==
    walkable(m, i, j1, k) \/ walkable(m, i1, j, k)

DiagonalAllowed(m, i, j, i1, j1, k) == walkable(m, i, j1, k) /\ walkable(m, i1, j, k)

GridEdge(m, i, j, k, index) ==
    LET i1 == i + OffI[index + 1]
        j1 == j + OffJ[index + 1]
    IN  /\ (i1 # i) \/ (j1 # j)
        /\ walkable(m, i1, j1, k)
        /\ (index % 2 = 1) \/ DiagonalAllowed(m, i, j, i1, j1, k)

RECURSIVE GridNeighbors(_, _, _, _, _)
GridNeighbors(m, i, j, k, index) ==
    IF index >= 9 THEN <<>>
    ELSE (IF GridEdge(m, i, j, k, index)
          THEN << <<index, <<i + OffI[index + 1], j + OffJ[index + 1]>> >> >>
          ELSE <<>>)
         \o GridNeighbors(m, i, j, k, index + 1)

GridDistance(index) == IF index % 2 = 1 THEN Unit ELSE Sqrt2

\* Math.sqrt(Math.pow(Math.min(di, dj), 2) * 2) + Math.max(di, dj) - Math.min(di, dj)
GridHeuristic(i, j, i1, j1) ==
    LET di == Abs(i1 - i)
        dj == Abs(j1 - j)
    IN  Sqrt2 * Min(di, dj) + Unit * (Max(di, dj) - Min(di, dj))

getGraphNode(m, i, j, k, i1, j1) ==
    [id |-> <<i, j>>,
     heuristic |-> GridHeuristic(i, j, i1, j1),
     neighbors |-> GridNeighbors(m, i, j, k, 0)]

(***************************************************************************)
(* Canvace.TileMap.translatePath: edge labels to the cells walked.          *)
(***************************************************************************)
RECURSIVE translatePath(_, _, _)
translatePath(i, j, p) ==
    IF p = <<>> THEN <<>>
    ELSE LET i2 == i + OffI[Head(p) + 1]
             j2 == j + OffJ[Head(p) + 1]
         IN  << <<i2, j2>> >> \o translatePath(i2, j2, Tail(p))

(***************************************************************************)
(* Hand-built graphs implementing the Canvace.Astar.Node interface: nodes   *)
(* 1..4, node 4 the target, the edges of AbsEdges labelled by their index.  *)
(* graph.w[e] is the weight of edge e, 0 for an edge that is left out.      *)
(***************************************************************************)
AbsNodes == 1 .. 4
AbsEdges == << <<1, 2>>, <<1, 3>>, <<2, 3>>, <<3, 2>>, <<2, 4>>, <<3, 4>> >>

RECURSIVE AbsNeighbors(_, _, _)
AbsNeighbors(g, n, e) ==
    IF e > Len(AbsEdges) THEN <<>>
    ELSE (IF AbsEdges[e][1] = n /\ g.w[e] > 0
          THEN << <<e, <<AbsEdges[e][2]>> >> >>
          ELSE <<>>)
         \o AbsNeighbors(g, n, e + 1)

AbsNode(g, n) ==
    [id |-> <<n>>, heuristic |-> g.h[n], neighbors |-> AbsNeighbors(g, n, 1)]

(***************************************************************************)
(* The node with a given id, as the neighbor functions of the graph build   *)
(* it, and node.distance(edge).                                             *)
(***************************************************************************)
Node(id) ==
    IF graph.kind = "grid"
    THEN getGraphNode(matrix, id[1], id[2], graph.k, graph.i1, graph.j1)
    ELSE AbsNode(graph, id[1])

\* node.heuristic of the node with a given id
Heuristic(id) ==
    IF graph.kind = "grid"
    THEN GridHeuristic(id[1], id[2], graph.i1, graph.j1)
    ELSE graph.h[id[1]]

Distance(id, edge) ==
    IF graph.kind = "grid" THEN GridDistance(edge) ELSE graph.w[edge]

(***************************************************************************)
(* Canvace.Heap, as findPath constructs it.  The heap array holds node ids  *)
(* (a node object is a function of its id); indices are those of the        *)
(* JavaScript array, from 0.  os is the openScore table the comparator      *)
(* reads.                                                                   *)
(***************************************************************************)
At(h, i) == h[i + 1]

left(i) == i * 2 + 1
right(i) == i * 2 + 2
parent(i) == (i - 1) \div 2

\* openScore[u.id] + u.heuristic * (1 + epsilon), times EpsDen
FScore(u, os) == os[u] * EpsDen + Heuristic(u) * (EpsDen + graph.eps)

compare(u, v, os) ==
    LET fu == FScore(u, os)
        fv == FScore(v, os)
    IN  IF fu < fv THEN -1 ELSE IF fu > fv THEN 1 ELSE 0

same(u, v) == u = v

smaller(h, i, j, os) == compare(At(h, i), At(h, j), os) < 0

swap(h, i, j) == [h EXCEPT ![i + 1] = h[j + 1], ![j + 1] = h[i + 1]]

RECURSIVE heapify(_, _, _)
heapify(h, i, os) ==
    LET l == left(i)
        r == right(i)
        min1 == IF (Len(h) > l) /\ smaller(h, l, i, os) THEN l ELSE i
        min == IF (Len(h) > r) /\ smaller(h, r, min1, os) THEN r ELSE min1
    IN  IF min > i THEN heapify(swap(h, i, min), min, os) ELSE h

RECURSIVE find(_, _, _, _)
find(h, element, index, os) ==
    IF index < Len(h)
    THEN IF same(element, At(h, index)) THEN index
         ELSE IF compare(element, At(h, index), os) < 0 THEN -1
         ELSE LET inLeft == find(h, element, left(index), os)
              IN  IF inLeft >= 0 THEN inLeft
                  ELSE find(h, element, right(index), os)
    ELSE -1

\* the loop shared by push and decreaseKey
RECURSIVE siftUp(_, _, _)
siftUp(h, index, os) ==
    IF index # 0 /\ smaller(h, index, parent(index), os)
    THEN siftUp(swap(h, index, parent(index)), parent(index), os)
    ELSE h

HeapPush(h, element, os) == siftUp(Append(h, element), Len(h), os)

\* pop with the last element put at the root and left there
HeapPop_WithoutHeapify(h, os) ==
    LET result == At(h, 0)
        last == h[Len(h)]
        rest == SubSeq(h, 1, Len(h) - 1)
    IN  IF Len(rest) > 0
        THEN <<result, [rest EXCEPT ![1] = last]>>
        ELSE <<result, rest>>

\* <<the element extracted, the heap left>>
HeapPop(h, os) ==
    LET result == At(h, 0)
        last == h[Len(h)]
        rest == SubSeq(h, 1, Len(h) - 1)
    IN  IF Len(rest) > 0
        THEN <<result, heapify([rest EXCEPT ![1] = last], 0, os)>>
        ELSE <<result, rest>>

(***************************************************************************)
(* Canvace.Astar.findPath.  One action per iteration of the while loop.     *)
(***************************************************************************)
\* decreaseKey with the element left where it was found
DecreaseKey_WithoutSiftUp(st, node, cost, link) ==
    LET index == find(st.heap, node, 0, st.os)
        os2 == [st.os EXCEPT ![node] = cost]
    IN  IF index >= 0
        THEN [heap |-> st.heap,
              os |-> os2,
              bl |-> [n \in (DOMAIN st.bl) \cup {node} |->
                         IF n = node THEN link ELSE st.bl[n]]]
        ELSE st

\* heap.decreaseKey(node, decrease): the element is looked up under the
\* scores as they are, the callback then lowers the score and sets the back
\* link, and the element is sifted up under the new scores.  When the
\* element is not found the callback does not run.
DecreaseKey(st, node, cost, link) ==
    LET index == find(st.heap, node, 0, st.os)
        os2 == [st.os EXCEPT ![node] = cost]
    IN  IF index >= 0
        THEN [heap |-> siftUp(st.heap, index, os2),
              os |-> os2,
              bl |-> [n \in (DOMAIN st.bl) \cup {node} |->
                         IF n = node THEN link ELSE st.bl[n]]]
        ELSE st

\* the loop body with the closed-set test made on currentNode.id
Relax_TestsCurrentNode(st, closed, current, score, edge, node) ==
    IF current \notin closed
    THEN LET cost == score + Distance(current, edge)
             link == [parent |-> current, edge |-> edge]
             os2 == [n \in (DOMAIN st.os) \cup {node} |->
                        IF n = node THEN cost ELSE st.os[n]]
         IN  [heap |-> HeapPush(st.heap, node, os2),
              os |-> os2,
              bl |-> [n \in (DOMAIN st.bl) \cup {node} |->
                         IF n = node THEN link ELSE st.bl[n]]]
    ELSE st

\* the body of the for loop over currentNode.neighbors, for one edge
Relax(st, closed, current, score, edge, node) ==
    IF node \notin closed
    THEN LET cost == score + Distance(current, edge)
             link == [parent |-> current, edge |-> edge]
         IN  IF node \in DOMAIN st.os
             THEN IF cost < st.os[node]
                  THEN DecreaseKey(st, node, cost, link)
                  ELSE st
             ELSE LET os2 == [n \in (DOMAIN st.os) \cup {node} |->
                                 IF n = node THEN cost ELSE st.os[n]]
                  IN  [heap |-> HeapPush(st.heap, node, os2),
                       os |-> os2,
                       bl |-> [n \in (DOMAIN st.bl) \cup {node} |->
                                  IF n = node THEN link ELSE st.bl[n]]]
    ELSE st

RECURSIVE RelaxAll(_, _, _, _, _)
RelaxAll(st, closed, current, score, nbs) ==
    IF nbs = <<>> THEN st
    ELSE RelaxAll(Relax(st, closed, current, score, Head(nbs)[1], Head(nbs)[2]),
                  closed, current, score, Tail(nbs))

RECURSIVE WalkBack(_, _)
WalkBack(node, bl) ==
    IF node \in DOMAIN bl
    THEN <<bl[node].edge>> \o WalkBack(bl[node].parent, bl)
    ELSE <<>>

\* what the call returns: null, or the array of edge labels; for
\* TileMap.findPath the labels are translated to the cells walked
NoPath == [null |-> TRUE, edges |-> <<>>, cells |-> <<>>]
FoundPath(edges) ==
    [null |-> FALSE, edges |-> edges,
     cells |-> IF graph.kind = "grid"
               THEN translatePath(graph.start[1], graph.start[2], edges)
               ELSE <<>>]

\* openScore[startNode.id] = 0; heap.push(startNode)
FindPathBegin ==
    /\ apc = "idle"
    /\ openScore' = (graph.start :> 0)
    /\ heap' = HeapPush(<<>>, graph.start, openScore')
    /\ closedSet' = {}
    /\ backLink' = [n \in {} |-> [parent |-> n, edge |-> 0]]
    /\ apc' = "loop"
    /\ UNCHANGED <<graph, path, matrix, rc, bucketsVars, pc, stageVars>>

\* an iteration that pops a node whose heuristic is not zero
AstarExpand ==
    /\ apc = "loop"
    /\ Len(heap) > 0
    /\ Heuristic(At(heap, 0)) # 0
    /\ LET popped == HeapPop(heap, openScore)
           currentNode == popped[1]
           score == openScore[currentNode]
           os1 == [n \in (DOMAIN openScore) \ {currentNode} |-> openScore[n]]
           closed == closedSet \cup {currentNode}
           st == RelaxAll([heap |-> popped[2], os |-> os1, bl |-> backLink],
                          closed, currentNode, score, Node(currentNode).neighbors)
       IN  /\ closedSet' = closed
           /\ heap' = st.heap
           /\ openScore' = st.os
           /\ backLink' = st.bl
    /\ UNCHANGED <<graph, path, apc, matrix, rc, bucketsVars, pc, stageVars>>

\* an iteration that pops a node whose heuristic is zero: the path is returned
AstarGoal ==
    /\ apc = "loop"
    /\ Len(heap) > 0
    /\ Heuristic(At(heap, 0)) = 0
    /\ LET popped == HeapPop(heap, openScore)
           currentNode == popped[1]
       IN  /\ heap' = popped[2]
           /\ openScore' = [n \in (DOMAIN openScore) \ {currentNode} |-> openScore[n]]
           /\ path' = FoundPath(Reverse(WalkBack(currentNode, backLink)))
    /\ apc' = "done"
    /\ UNCHANGED <<graph, closedSet, backLink, matrix, rc, bucketsVars, pc, stageVars>>

\* the heap is empty: null is returned
AstarNull ==
    /\ apc = "loop"
    /\ Len(heap) = 0
    /\ path' = NoPath
    /\ apc' = "done"
    /\ UNCHANGED <<graph, heap, openScore, closedSet, backLink, matrix, rc, bucketsVars, pc, stageVars>>

AstarIdle ==
    /\ heap = <<>>
    /\ openScore = [n \in {} |-> 0]
    /\ closedSet = {}
    /\ backLink = [n \in {} |-> [parent |-> n, edge |-> 0]]
    /\ path = NoPath
    /\ apc = "idle"

\* the values of findPath's variables while no call is made at all
AstarUnused ==
    /\ AstarIdle
    /\ graph = [kind |-> "none", start |-> <<>>, w |-> <<>>, h |-> <<>>,
                eps |-> 0, k |-> 0, i1 |-> 0, j1 |-> 0, scenario |-> FALSE]

(***************************************************************************)
(* Canvace.TileMap.rectangleCollision(k, i, j, di, dj, Di, Dj, collides).   *)
(* Coordinates, spans and displacements are counted in 1/Unit of a cell.    *)
(* c is the optional collides callback: "none" when it is not passed, else  *)
(* the name of a predicate of the tile's solid flag.                        *)
(***************************************************************************)
Floor(x) == x \div Unit

\* Math.floor in the place of Math.ceil
Ceil_AsFloor(x) == Floor(x)

Ceil(x) == -((-x) \div Unit)

Collides(c, solid) ==
    CASE c = "none" -> solid
      [] c = "solid" -> solid
      [] c = "notSolid" -> ~solid
      [] OTHER -> TRUE

solidTileAt(m, c, i, j, k) ==
    IF MatrixHas(m, i, j, k)
    THEN Collides(c, tiles[ResolveId(m, i, j, k)].solid)
    ELSE FALSE

\* the clamp with its comparison turned around
Clamp_ComparisonInverted(v, D) == IF Abs(v) < Abs(D) + 1 THEN 0 ELSE v

\* if (Math.abs(v.i) > Math.abs(Di) + 0.001) v.i = 0
Clamp(v, D) == IF Abs(v) > Abs(D) + 1 THEN 0 ELSE v

\* the low-side correction preferred when both are found
Combine_PreferringLow(vu, vo) == IF vu # 0 THEN vu ELSE vo

\* if (viu && vio) 0 else if (viu) viu else vio
Combine(vu, vo) == IF vu # 0 /\ vo # 0 THEN 0 ELSE IF vu # 0 THEN vu ELSE vo

rectangleCollision(m, k, i, j, di, dj, Di, Dj, c) ==
    LET i0 == Floor(i)
        j0 == Floor(j)
        i1 == Ceil(i + di) - 1
        j1 == Ceil(j + dj) - 1
        has == MatrixHasLayer(m, k)
        \* the two loops assign the same value on every iteration that
        \* assigns, so each correction is that value when some iteration does
        viu == IF has /\ \E j2 \in j0 .. j1 :
                            /\ solidTileAt(m, c, i0, j2, k)
                            /\ (i0 = i1) \/ ~solidTileAt(m, c, i0 + 1, j2, k)
               THEN i0 * Unit + Unit - i ELSE 0
        vio == IF has /\ \E j2 \in j0 .. j1 :
                            /\ solidTileAt(m, c, i1, j2, k)
                            /\ (i0 = i1) \/ ~solidTileAt(m, c, i1 - 1, j2, k)
               THEN i1 * Unit - i - di ELSE 0
        vju == IF has /\ \E i2 \in i0 .. i1 :
                            /\ solidTileAt(m, c, i2, j0, k)
                            /\ (j0 = j1) \/ ~solidTileAt(m, c, i2, j0 + 1, k)
               THEN j0 * Unit + Unit - j ELSE 0
        vjo == IF has /\ \E i2 \in i0 .. i1 :
                            /\ solidTileAt(m, c, i2, j1, k)
                            /\ (j0 = j1) \/ ~solidTileAt(m, c, i2, j1 - 1, k)
               THEN j1 * Unit - j - dj ELSE 0
    IN  [i |-> Clamp(Combine(viu, vio), Di), j |-> Clamp(Combine(vju, vjo), Dj)]

\* solidTileAt(i, j) ends with a TypeError: the cell holds a string whose
\* cell is empty or holds a string, so that data.tiles[id] is undefined
solidTileAtRaises(m, i, j, k) ==
    /\ MatrixHas(m, i, j, k)
    /\ ~MatrixGet(m, i, j, k).num
    /\ LET id == MatrixGet(m, i, j, k)
       IN  ~MatrixHas(m, id.i, id.j, k) \/ ~MatrixGet(m, id.i, id.j, k).num

\* rectangleCollision ends with a TypeError: one of the calls of solidTileAt
\* its loops make does (the second call of a pair is made when the first
\* one returned true and the rectangle spans several cells)
rectangleCollisionRaises(m, k, i, j, di, dj, c) ==
    LET i0 == Floor(i)
        j0 == Floor(j)
        i1 == Ceil(i + di) - 1
        j1 == Ceil(j + dj) - 1
        Pair(a, b, a1, b1, single) ==
            \/ solidTileAtRaises(m, a, b, k)
            \/ /\ solidTileAt(m, c, a, b, k)
               /\ ~single
               /\ solidTileAtRaises(m, a1, b1, k)
    IN  /\ MatrixHasLayer(m, k)
        /\ \/ \E j2 \in j0 .. j1 : \/ Pair(i0, j2, i0 + 1, j2, i0 = i1)
                                    \/ Pair(i1, j2, i1 - 1, j2, i0 = i1)
           \/ \E i2 \in i0 .. i1 : \/ Pair(i2, j0, i2, j0 + 1, j0 = j1)
                                    \/ Pair(i2, j1, i2, j1 - 1, j0 = j1)

RcCall(called, k, i, j, di, dj, Di, Dj, c, v) ==
    [called |-> called, k |-> k, i |-> i, j |-> j, di |-> di, dj |-> dj,
     Di |-> Di, Dj |-> Dj, c |-> c, v |-> v]

CollisionIdle == rc = RcCall(FALSE, 0, 0, 0, 0, 0, 0, 0, "none", [i |-> 0, j |-> 0])

\* the call: rc holds the arguments, and then the vector returned as well
RectangleCollision ==
    /\ ~rc.called
    /\ rc' = [rc EXCEPT !.called = TRUE,
                        !.v = rectangleCollision(matrix, rc.k, rc.i, rc.j, rc.di, rc.dj,
                                                 rc.Di, rc.Dj, rc.c)]
    /\ UNCHANGED <<astarVars, stageVars, matrix, bucketsVars, pc>>

\* the arguments the calls are drawn from
RcOrigins == {0, 600, 999, 1600, 2000}
RcSpans == {500, 1000, 2000}
RcMoves == {0, 500, 600, 0 - 500}
RcCallbacks == {"none", "notSolid"}

\* the maps: layer 0 holds wall tiles at the cells of `walls`, and floor
\* tiles at the other cells of the region when `filled`
RcCells == {<<i, j>> : i \in 0 .. 3, j \in 0 .. 1}

RcMatrix(walls, filled) ==
    [data |-> [c \in {<<x[1], x[2], 0>> : x \in IF filled THEN RcCells ELSE walls} |->
                  IF <<c[1], c[2]>> \in walls THEN IdCell(WallTile)
                  ELSE IdCell(FloorTile)],
     layers |-> IF filled \/ walls # {} THEN {0} ELSE {}]

InitCollision ==
    /\ AstarUnused
    /\ BucketsIdle
    /\ PutAtIdle
    /\ InstanceIdle
    /\ FrameTableIdle
    /\ MultiSetIdle
    /\ ListIdle
    /\ MachineIdle
    /\ LadybugIdle
    /\ LoaderIdle
    /\ RenderLoopIdle
    /\ \E walls \in SUBSET RcCells, filled \in BOOLEAN :
          /\ Cardinality(walls) <= MaxWalls
          /\ matrix = RcMatrix(walls, filled)
    /\ \E k \in {0, 1}, i \in RcOrigins, j \in {0, 999}, di \in RcSpans, dj \in {1000, 2000},
          Di \in RcMoves, Dj \in {0, 500}, c \in RcCallbacks :
          rc = RcCall(FALSE, k, i, j, di, dj, Di, Dj, c, [i |-> 0, j |-> 0])

NextCollision == RectangleCollision

SpecCollision == InitCollision /\ [][NextCollision]_vars

(***************************************************************************)
(* The inputs of findPath.                                                  *)
(***************************************************************************)
\* the hand-built graphs: the edge 1->2 has weight 1, the edges 1->3 and
\* 2<->3 have weights 1..MaxW, the edges into the target 4 may be left out
\* (weight 0)
AbsWeights ==
    {w \in [1 .. Len(AbsEdges) -> 0 .. MaxW] :
        /\ w[1] = 1 /\ w[2] > 0 /\ w[3] > 0
        /\ w[4] = w[3]}

AbsGraphs ==
    {[kind |-> "abstract", start |-> <<1>>, w |-> w,
      h |-> (1 :> 1) @@ (2 :> h2) @@ (3 :> h3) @@ (4 :> 0),
      eps |-> e, k |-> 0, i1 |-> 0, j1 |-> 0, scenario |-> FALSE] :
        w \in AbsWeights, h2 \in 1 .. MaxH, h3 \in 1 .. MaxH, e \in 0 .. EpsDen}

\* the map the TileMap constructor builds from data.map for a side x side
\* grid of floor tiles with wall tiles at the cells of `solid`
GridMatrix(side, solid) ==
    [data |-> [c \in {<<i, j, 0>> : i \in 0 .. side - 1, j \in 0 .. side - 1} |->
                  IF <<c[1], c[2]>> \in solid THEN IdCell(WallTile)
                  ELSE IdCell(FloorTile)],
     layers |-> {0}]

\* TileMap.findPath(i, j, k, i1, j1) uses new Canvace.Astar(): epsilon is 0
GridGraph(i, j, i1, j1, scenario) ==
    [kind |-> "grid", start |-> <<i, j>>, w |-> <<>>, h |-> <<>>,
     eps |-> 0, k |-> 0, i1 |-> i1, j1 |-> j1, scenario |-> scenario]

GridCells == {<<i, j>> : i \in 0 .. GridN - 1, j \in 0 .. GridN - 1}

InitAstar ==
    /\ AstarIdle
    /\ CollisionIdle
    /\ BucketsIdle
    /\ PutAtIdle
    /\ InstanceIdle
    /\ FrameTableIdle
    /\ MultiSetIdle
    /\ ListIdle
    /\ MachineIdle
    /\ LadybugIdle
    /\ LoaderIdle
    /\ RenderLoopIdle
    /\ \/ /\ graph \in AbsGraphs
          /\ matrix = EmptyMatrix
       \/ \E solid \in SUBSET GridCells, target \in GridCells :
             /\ Cardinality(solid) <= MaxObstacles
             /\ graph = GridGraph(0, 0, target[1], target[2], FALSE)
             /\ matrix = GridMatrix(GridN, solid)
       \/ /\ graph = GridGraph(0, 0, 9, 9, TRUE)
          /\ matrix = GridMatrix(10, {<<5, 5>>})

NextAstar == FindPathBegin \/ AstarExpand \/ AstarGoal \/ AstarNull

SpecAstar == InitAstar /\ [][NextAstar]_vars

(***************************************************************************)
(* A Canvace.Heap used on its own: the elements are <<1>> .. <<MaxHeap>>,   *)
(* compared by the key openScore holds for them (the heuristic is 0), and   *)
(* the callback passed to decreaseKey lowers the key of the stored element  *)
(* and sets its back link, as the callback of findPath does.                *)
(***************************************************************************)
MaxHeap == 3        \* number of elements pushed to the heap
MaxKey == 2         \* largest key of an element

PushCall ==
    /\ \E n \in 1 .. MaxHeap, key \in 0 .. MaxKey :
          /\ \A m \in DOMAIN heap : heap[m] # <<n>>
          /\ openScore' = [u \in (DOMAIN openScore) \cup {<<n>>} |->
                              IF u = <<n>> THEN key ELSE openScore[u]]
          /\ heap' = HeapPush(heap, <<n>>, openScore')
          /\ backLink' = [u \in (DOMAIN backLink) \ {<<n>>} |-> backLink[u]]
    /\ UNCHANGED <<graph, closedSet, path, apc, matrix, rc, bucketsVars, pc, stageVars>>

PopCall ==
    /\ heap # <<>>
    /\ heap' = HeapPop(heap, openScore)[2]
    /\ UNCHANGED <<graph, openScore, closedSet, backLink, path, apc, matrix, rc,
                   bucketsVars, pc, stageVars>>

DecreaseKeyCall ==
    /\ \E node \in DOMAIN openScore, cost \in 0 .. MaxKey :
          /\ cost < openScore[node]
          /\ LET st == DecreaseKey([heap |-> heap, os |-> openScore, bl |-> backLink],
                                   node, cost, [parent |-> node, edge |-> 0])
             IN  /\ heap' = st.heap
                 /\ openScore' = st.os
                 /\ backLink' = st.bl
    /\ UNCHANGED <<graph, closedSet, path, apc, matrix, rc, bucketsVars, pc, stageVars>>

InitHeap ==
    /\ AstarIdle
    /\ CollisionIdle
    /\ BucketsIdle
    /\ PutAtIdle
    /\ InstanceIdle
    /\ FrameTableIdle
    /\ MultiSetIdle
    /\ ListIdle
    /\ MachineIdle
    /\ LadybugIdle
    /\ LoaderIdle
    /\ RenderLoopIdle
    /\ matrix = EmptyMatrix
    /\ graph = [kind |-> "heap", start |-> <<>>, w |-> <<>>,
                h |-> [n \in 1 .. MaxHeap |-> 0],
                eps |-> 0, k |-> 0, i1 |-> 0, j1 |-> 0, scenario |-> FALSE]

NextHeap == PushCall \/ PopCall \/ DecreaseKeyCall

SpecHeap == InitHeap /\ [][NextHeap]_vars

(***************************************************************************)
(* A Canvace.MultiSet made empty, then used through add, the removers add   *)
(* returned, forEach and clear.                                             *)
(***************************************************************************)
MaxAdds == 4        \* insertions made into the multiset

Add ==
    /\ ms.nextId < MaxAdds
    /\ \E element \in {"a", "b"} :
          ms' = [ms EXCEPT !.elements = [id \in (DOMAIN ms.elements) \cup {ms.nextId} |->
                                            IF id = ms.nextId THEN element
                                            ELSE ms.elements[id]],
                           !.nextId = ms.nextId + 1,
                           !.count = ms.count + 1]
    /\ UNCHANGED <<astarVars, matrix, rc, bucketsVars, pc, ic, fc, rl, utilVars>>

\* a call of the function the add numbered `id` returned
Remover ==
    /\ \E id \in 0 .. ms.nextId - 1 :
          ms' = [remover(ms, id).ms EXCEPT !.called = @ \cup {id},
                                           !.out = remover(ms, id).result]
    /\ UNCHANGED <<astarVars, matrix, rc, bucketsVars, pc, ic, fc, rl, utilVars>>

\* forEach with an action that calls the remover it is given for the
\* elements of the insertions in `removing` and returns false on the
\* insertion `last`, if it gets that far (-1: it never returns false);
\* `for in` enumerates the ids in ascending order
ForEach ==
    /\ \E removing \in SUBSET DOMAIN ms.elements,
          last \in (DOMAIN ms.elements) \cup {-1} :
          LET visited == {id \in DOMAIN ms.elements : last = -1 \/ id <= last}
              kept == (DOMAIN ms.elements) \ (visited \cap removing)
          IN  /\ visited \cap removing # {}
              /\ ms' = [ms EXCEPT !.elements = [id \in kept |-> ms.elements[id]],
                                  !.count = ms.count - Cardinality(visited \cap removing)]
    /\ UNCHANGED <<astarVars, matrix, rc, bucketsVars, pc, ic, fc, rl, utilVars>>

Clear ==
    /\ ms' = [ms EXCEPT !.elements = [id \in {} |-> ""], !.count = 0]
    /\ UNCHANGED <<astarVars, matrix, rc, bucketsVars, pc, ic, fc, rl, utilVars>>

InitMultiSet ==
    /\ AstarUnused
    /\ CollisionIdle
    /\ BucketsIdle
    /\ PutAtIdle
    /\ InstanceIdle
    /\ FrameTableIdle
    /\ MultiSetIdle
    /\ ListIdle
    /\ MachineIdle
    /\ LadybugIdle
    /\ LoaderIdle
    /\ RenderLoopIdle
    /\ matrix = EmptyMatrix

NextMultiSet == Add \/ Remover \/ ForEach \/ Clear

SpecMultiSet == InitMultiSet /\ [][NextMultiSet]_vars

(***************************************************************************)
(* A Canvace.RenderLoop of either type, with or without the two callbacks.  *)
(* run, suspend and stop are called between two iterations or from inside   *)
(* one of the callbacks of the iteration in progress, userTick or           *)
(* synchronizeView.  The browser runs a callback it holds when no script    *)
(* is running.                                                              *)
(***************************************************************************)
Run ==
    /\ rl.todo # <<>> => Head(rl.todo).call \in {"userTick", "synchronizeView"}
    /\ (~rl.running \/ rl.banned) =>
          Cardinality(rl.pending) + (IF rl.type = "request" /\ rl.todo # <<>> THEN 1 ELSE 0)
             < MaxPending
    /\ rl' = run(rl)
    /\ UNCHANGED <<astarVars, matrix, rc, bucketsVars, pc, ic, fc, ms, utilVars>>

Suspend ==
    /\ rl.todo # <<>> => Head(rl.todo).call \in {"userTick", "synchronizeView"}
    /\ rl' = suspend(rl)
    /\ UNCHANGED <<astarVars, matrix, rc, bucketsVars, pc, ic, fc, ms, utilVars>>

Stop ==
    /\ rl.todo # <<>> => Head(rl.todo).call \in {"userTick", "synchronizeView"}
    /\ rl' = stop(rl)
    /\ UNCHANGED <<astarVars, matrix, rc, bucketsVars, pc, ic, fc, ms, utilVars>>

\* the browser runs a callback it holds: an animation frame request is
\* used up, an interval stays; the callback enters updateLoop
Tick ==
    /\ rl.todo = <<>>
    /\ \E id \in rl.pending, n \in 1 .. MaxSteps :
          rl' = [rl EXCEPT !.pending = IF rl.type = "request" THEN @ \ {id} ELSE @,
                           !.done = <<>>,
                           !.todo = updateLoop(rl, n)]
    /\ UNCHANGED <<astarVars, matrix, rc, bucketsVars, pc, ic, fc, ms, utilVars>>

\* updateLoop makes its next call; after the last one the callback of
\* requestBasedLoop requests the next frame if (running || !banned)
Advance ==
    /\ rl.todo # <<>>
    /\ LET l == [rl EXCEPT !.done = Append(@, Head(rl.todo)), !.todo = Tail(@)]
       IN  rl' = IF l.todo = <<>> /\ l.type = "request" /\ (l.running \/ ~l.banned)
                 THEN [l EXCEPT !.token = requestId(l),
                                !.pending = @ \cup {requestId(l)}]
                 ELSE l
    /\ UNCHANGED <<astarVars, matrix, rc, bucketsVars, pc, ic, fc, ms, utilVars>>

InitRenderLoop ==
    /\ AstarUnused
    /\ CollisionIdle
    /\ BucketsIdle
    /\ PutAtIdle
    /\ InstanceIdle
    /\ FrameTableIdle
    /\ MultiSetIdle
    /\ ListIdle
    /\ MachineIdle
    /\ LadybugIdle
    /\ LoaderIdle
    /\ matrix = EmptyMatrix
    /\ \E type \in {"request", "interval"}, userTick, synchronizeView \in BOOLEAN :
          rl = RenderLoop(type, userTick, synchronizeView)

NextRenderLoop == Run \/ Suspend \/ Stop \/ Tick \/ Advance

SpecRenderLoop == InitRenderLoop /\ [][NextRenderLoop]_vars

\* the browser eventually runs a callback it holds, and a script that is
\* running runs to its end
SpecRenderLoopLive ==
    /\ InitRenderLoop
    /\ [][NextRenderLoop]_vars
    /\ WF_vars(Tick)
    /\ WF_vars(Advance)

(***************************************************************************)
(* A Canvace.List made empty, then used through addHead, addTail, clear     *)
(* and the remove method of the accessors the calls returned.               *)
(***************************************************************************)
MaxNodes == 3       \* nodes added to the list

AddHead ==
    /\ Len(ls.nodes) < MaxNodes
    /\ \E element \in {1, 2} :
          LET node == Len(ls.nodes) + 1
          IN  ls' = [nodes |-> Append(ls.nodes, [element |-> element, previous |-> 0,
                                                 next |-> ls.head, removed |-> FALSE]),
                     head |-> node,
                     tail |-> IF ls.tail = 0 THEN node ELSE ls.tail,
                     count |-> ls.count + 1,
                     kept |-> <<node>> \o ls.kept]
    /\ UNCHANGED <<astarVars, matrix, rc, bucketsVars, pc, ic, fc, ms, rl, sm, lb, ld>>

AddTail ==
    /\ Len(ls.nodes) < MaxNodes
    /\ \E element \in {1, 2} :
          LET node == Len(ls.nodes) + 1
          IN  ls' = [nodes |-> Append(ls.nodes, [element |-> element, previous |-> ls.tail,
                                                 next |-> 0, removed |-> FALSE]),
                     head |-> IF ls.head = 0 THEN node ELSE ls.head,
                     tail |-> node,
                     count |-> ls.count + 1,
                     kept |-> Append(ls.kept, node)]
    /\ UNCHANGED <<astarVars, matrix, rc, bucketsVars, pc, ic, fc, ms, rl, sm, lb, ld>>

\* remove() of an accessor of the node
AccessorRemove ==
    /\ \E node \in DOMAIN ls.nodes :
          LET n == ls.nodes[node]
              unlinked == [m \in DOMAIN ls.nodes |->
                             IF m = node THEN [n EXCEPT !.removed = TRUE]
                             ELSE [ls.nodes[m] EXCEPT
                                     !.next = IF m = n.previous THEN n.next ELSE @,
                                     !.previous = IF m = n.next THEN n.previous ELSE @]]
          IN  ls' = IF n.removed THEN ls
                    ELSE [ls EXCEPT !.nodes = unlinked,
                                    !.head = IF node = ls.head THEN n.next ELSE @,
                                    !.tail = IF node = ls.tail THEN n.previous ELSE @,
                                    !.kept = SelectSeq(@, LAMBDA m : m # node)]
    /\ UNCHANGED <<astarVars, matrix, rc, bucketsVars, pc, ic, fc, ms, rl, sm, lb, ld>>

ListClear ==
    /\ ls' = [ls EXCEPT !.head = 0, !.tail = 0, !.count = 0, !.kept = <<>>]
    /\ UNCHANGED <<astarVars, matrix, rc, bucketsVars, pc, ic, fc, ms, rl, sm, lb, ld>>

InitList ==
    /\ AstarUnused
    /\ CollisionIdle
    /\ BucketsIdle
    /\ PutAtIdle
    /\ InstanceIdle
    /\ FrameTableIdle
    /\ MultiSetIdle
    /\ RenderLoopIdle
    /\ ListIdle
    /\ MachineIdle
    /\ LadybugIdle
    /\ LoaderIdle
    /\ matrix = EmptyMatrix

NextList == AddHead \/ AddTail \/ AccessorRemove \/ ListClear

SpecList == InitList /\ [][NextList]_vars

(***************************************************************************)
(* A ParametricStateMachine of two states, started in "a", whose            *)
(* transition methods are called in any order.  sm.taken counts the calls   *)
(* that found their transition in the current state.                        *)
(***************************************************************************)
MaxTaken == 3       \* transitions taken

Transition ==
    /\ sm.taken < MaxTaken
    /\ sm.thrown = "none"
    /\ \E t \in {"go", "back"} :
          sm' = [transition(sm, t) EXCEPT
                   !.taken = IF (t = "go") = (sm.currentStateName = "a")
                             THEN @ + 1 ELSE @]
    /\ UNCHANGED <<astarVars, matrix, rc, bucketsVars, pc, ic, fc, ms, rl, ls, lb, ld>>

InitMachine ==
    /\ AstarUnused
    /\ CollisionIdle
    /\ BucketsIdle
    /\ PutAtIdle
    /\ InstanceIdle
    /\ FrameTableIdle
    /\ MultiSetIdle
    /\ RenderLoopIdle
    /\ ListIdle
    /\ LadybugIdle
    /\ LoaderIdle
    /\ matrix = EmptyMatrix
    /\ \E kind \in [{"a", "b"} -> {"object", "function"}],
          go \in {<<"b">>, <<"b", "p">>, <<"b", "a">>},
          back \in {<<"a">>, <<"a", "q">>, <<"a", "b">>} :
          sm = [kind |-> kind,
                decl |-> [a |-> go, b |-> back],
                arrays |-> [a |-> go, b |-> back],
                currentStateName |-> "a", parameters |-> <<>>,
                thrown |-> "none", taken |-> 0]

NextMachine == Transition

SpecMachine == InitMachine /\ [][NextMachine]_vars

(***************************************************************************)
(* The Ladybug game around its character: the Keyboard calls the start and  *)
(* stop transitions (a keydown of a key it holds as pressed is dropped, and *)
(* a key is released only after it was pressed), and the render loop's      *)
(* callback removes the character when it fell below j > 20 or reached the  *)
(* goal, and calls land, arm, die, hurtLeft, hurtRight and fall as the      *)
(* collisions and the physics of the tick decide.                           *)
(***************************************************************************)
KeyDown ==
    /\ \E key \in {"LEFT", "RIGHT", "UP", "SPACE"} \ lb.keys :
          lb' = [states(lb, CASE key = "LEFT" -> "startLeft"
                              [] key = "RIGHT" -> "startRight"
                              [] key = "UP" -> "startJump"
                              [] OTHER -> "fire")
                   EXCEPT !.keys = @ \cup {key}]
    /\ UNCHANGED <<astarVars, matrix, rc, bucketsVars, pc, ic, fc, ms, rl, ls, sm, ld>>

KeyUp ==
    /\ \E key \in lb.keys :
          lb' = [(CASE key = "LEFT" -> states(lb, "stopLeft")
                    [] key = "RIGHT" -> states(lb, "stopRight")
                    [] key = "UP" -> states(lb, "stopJump")
                    [] OTHER -> lb)
                   EXCEPT !.keys = @ \ {key}]
    /\ UNCHANGED <<astarVars, matrix, rc, bucketsVars, pc, ic, fc, ms, rl, ls, sm, ld>>

\* instance.remove() below j > 20, or character.remove() at the goal
CharacterRemove ==
    /\ ~lb.removed
    /\ lb' = [lb EXCEPT !.removed = TRUE]
    /\ UNCHANGED <<astarVars, matrix, rc, bucketsVars, pc, ic, fc, ms, rl, ls, sm, ld>>

Land ==
    /\ lb' = states(lb, "land")
    /\ UNCHANGED <<astarVars, matrix, rc, bucketsVars, pc, ic, fc, ms, rl, ls, sm, ld>>

Fall ==
    /\ lb' = states(lb, "fall")
    /\ UNCHANGED <<astarVars, matrix, rc, bucketsVars, pc, ic, fc, ms, rl, ls, sm, ld>>

\* weapon.tick() of a weapon the character touches
WeaponTick ==
    /\ lb' = states(lb, "arm")
    /\ UNCHANGED <<astarVars, matrix, rc, bucketsVars, pc, ic, fc, ms, rl, ls, sm, ld>>

\* spider.tick() of a spider the character touches, from either side
SpiderTick ==
    /\ \E side \in {"hurtLeft", "hurtRight"} :
          LET value == IF lb.life > 0 THEN lb.life - 1 ELSE 0
          IN  lb' = states([lb EXCEPT !.life = value],
                           IF value = 0 THEN "die" ELSE side)
    /\ UNCHANGED <<astarVars, matrix, rc, bucketsVars, pc, ic, fc, ms, rl, ls, sm, ld>>

InitLadybug ==
    /\ AstarUnused
    /\ CollisionIdle
    /\ BucketsIdle
    /\ PutAtIdle
    /\ InstanceIdle
    /\ FrameTableIdle
    /\ MultiSetIdle
    /\ RenderLoopIdle
    /\ ListIdle
    /\ MachineIdle
    /\ LoaderIdle
    /\ matrix = EmptyMatrix
    /\ lb = [currentStateName |-> "still", parameters |-> <<"right">>,
             armed |-> FALSE, removed |-> FALSE,
             entity |-> <<"right", "unarmed", "still">>,
             velocity |-> [i |-> 0, j |-> 0], uniformVelocity |-> 0,
             life |-> 5, keys |-> {}, thrown |-> ""]

NextLadybug ==
    \/ KeyDown
    \/ KeyUp
    \/ CharacterRemove
    \/ Land
    \/ Fall
    \/ WeaponTick
    \/ SpiderTick

SpecLadybug == InitLadybug /\ [][NextLadybug]_vars

(***************************************************************************)
(* A Loader whose loadAssets and getImage are called by the page while the  *)
(* browser loads the images and the sounds, each of which loads or fails    *)
(* once.                                                                    *)
(***************************************************************************)
MaxCalls == 2       \* calls of loadAssets

LoadAssets ==
    /\ Len(ld.calls) < MaxCalls
    /\ \E given \in BOOLEAN, frames \in {<<>>, <<1>>, <<1, 1>>, <<1, 2>>},
          sounds \in BOOLEAN, sources \in SUBSET SoundIds, suitable \in BOOLEAN :
          /\ ~given => frames = <<>>
          /\ ~sounds => sources = {}
          /\ sources = {} => suitable
          /\ ld' = loadAssets(ld, [given |-> given, frames |-> frames],
                              [given |-> sounds, sources |-> sources], suitable)
    /\ UNCHANGED <<astarVars, matrix, rc, bucketsVars, pc, ic, fc, ms, rl, ls, sm, lb>>

\* getImage(id) without a callback
GetImage ==
    /\ \E id \in ImageIds :
          /\ ld.imageset[id] = "none"
          /\ ld' = [ld EXCEPT !.imageset[id] = "loading"]
    /\ UNCHANGED <<astarVars, matrix, rc, bucketsVars, pc, ic, fc, ms, rl, ls, sm, lb>>

\* the load event of an image
ImageLoad ==
    /\ \E id \in ImageIds :
          /\ ld.imageset[id] = "loading"
          /\ LET loaded == [ld EXCEPT !.imageset[id] = "loaded"]
             IN  ld' = IF ld.imageListener[id] = 0 THEN loaded
                       ELSE doProgress(loaded, ld.imageListener[id])
    /\ UNCHANGED <<astarVars, matrix, rc, bucketsVars, pc, ic, fc, ms, rl, ls, sm, lb>>

\* the error event of an image, to which the loader does not listen
ImageError ==
    /\ \E id \in ImageIds :
          /\ ld.imageset[id] = "loading"
          /\ ld' = [ld EXCEPT !.imageset[id] = "failed"]
    /\ UNCHANGED <<astarVars, matrix, rc, bucketsVars, pc, ic, fc, ms, rl, ls, sm, lb>>

\* the onload callback of a sound
SoundLoad ==
    /\ \E i \in SoundIds :
          /\ ld.soundset[i] = "loading"
          /\ ld' = progress([ld EXCEPT !.soundset[i] = "loaded"], ld.soundListener[i])
    /\ UNCHANGED <<astarVars, matrix, rc, bucketsVars, pc, ic, fc, ms, rl, ls, sm, lb>>

\* the onerror callback of a sound: loadError(i) and nothing else
SoundError ==
    /\ \E i \in SoundIds :
          /\ ld.soundset[i] = "loading"
          /\ ld' = [ld EXCEPT !.soundset[i] = "failed"]
    /\ UNCHANGED <<astarVars, matrix, rc, bucketsVars, pc, ic, fc, ms, rl, ls, sm, lb>>

InitLoader ==
    /\ AstarUnused
    /\ CollisionIdle
    /\ BucketsIdle
    /\ PutAtIdle
    /\ InstanceIdle
    /\ FrameTableIdle
    /\ MultiSetIdle
    /\ RenderLoopIdle
    /\ ListIdle
    /\ MachineIdle
    /\ LadybugIdle
    /\ matrix = EmptyMatrix
    /\ ld = [imageset |-> [id \in ImageIds |-> "none"],
             soundset |-> [i \in SoundIds |-> "none"],
             imageListener |-> [id \in ImageIds |-> 0],
             soundListener |-> [i \in SoundIds |-> 0],
             imagesLoaded |-> FALSE, soundsLoaded |-> FALSE, jobCount |-> 2,
             calls |-> <<>>]

NextLoader ==
    \/ LoadAssets
    \/ GetImage
    \/ ImageLoad
    \/ ImageError
    \/ SoundLoad
    \/ SoundError

SpecLoader == InitLoader /\ [][NextLoader]_vars

(***************************************************************************)
(* One call of Instance.rectangleCollision on an instance at (1, 1) that    *)
(* has moved by 0 or 0.3 along each axis since the last update.             *)
(***************************************************************************)
InstanceRectangleCollision ==
    /\ ~ic.called
    /\ ic' = [ic EXCEPT !.called = TRUE,
                        !.v = instanceRectangleCollision(ic, ic.i, ic.j, ic.di, ic.dj,
                                                         ic.Di, ic.Dj)]
    /\ UNCHANGED <<astarVars, matrix, rc, bucketsVars, pc, fc, ms, rl, utilVars>>

InitInstance ==
    /\ AstarUnused
    /\ CollisionIdle
    /\ BucketsIdle
    /\ PutAtIdle
    /\ FrameTableIdle
    /\ MultiSetIdle
    /\ ListIdle
    /\ MachineIdle
    /\ LadybugIdle
    /\ LoaderIdle
    /\ RenderLoopIdle
    /\ matrix = EmptyMatrix
    /\ \E i \in {0, 500, 1000, 1200, 1700, 2000, 2500},
          j \in {0, 500, 1000, 1200, 1700, 2000, 2500},
          di \in {500, 1000, 2000}, dj \in {500, 1000, 2000},
          Di \in {0, 3000}, Dj \in {0, 3000}, move \in {0, 300} :
          ic = [called |-> FALSE, position |-> [i |-> Unit, j |-> Unit],
                previousPosition |-> [i |-> Unit - move, j |-> Unit - move],
                i |-> i, j |-> j, di |-> di, dj |-> dj, Di |-> Di, Dj |-> Dj,
                v |-> [i |-> 0, j |-> 0]]

NextInstance == InstanceRectangleCollision

SpecInstance == InitInstance /\ [][NextInstance]_vars

(***************************************************************************)
(* An Animation made from the frames of a tile or of an entity, the calls   *)
(* of FrameTable.synchronize and the calls of the animation function.       *)
(***************************************************************************)
MaxFrames == 3      \* most frames of a sequence
MaxTime == 12       \* the largest timestamp passed to the animation function

Synchronize ==
    /\ ~fc.static
    /\ \E period \in {2, 3, 4} :
          LET sync == synchronize(fc.frames, fc, period)
          IN  fc' = [fc EXCEPT !.unit = sync.unit, !.table = sync.table,
                               !.called = FALSE, !.t = 0, !.out = 0]
    /\ UNCHANGED <<astarVars, matrix, rc, bucketsVars, pc, ic, ms, rl, utilVars>>

AnimationCall ==
    /\ \E timestamp \in 0 .. MaxTime :
          fc' = [fc EXCEPT !.called = TRUE, !.t = timestamp,
                           !.out = animation(fc, timestamp)]
    /\ UNCHANGED <<astarVars, matrix, rc, bucketsVars, pc, ic, ms, rl, utilVars>>

InitFrameTable ==
    /\ AstarUnused
    /\ CollisionIdle
    /\ BucketsIdle
    /\ PutAtIdle
    /\ InstanceIdle
    /\ MultiSetIdle
    /\ ListIdle
    /\ MachineIdle
    /\ LadybugIdle
    /\ LoaderIdle
    /\ RenderLoopIdle
    /\ matrix = EmptyMatrix
    \* the sequences of frames: the n-th frame has the id n
    /\ \E s \in UNION {[1 .. n -> {[hasDuration |-> FALSE, duration |-> 0],
                                     [hasDuration |-> TRUE, duration |-> 2],
                                     [hasDuration |-> TRUE, duration |-> 4]}] :
                        n \in 1 .. MaxFrames} :
          LET frames == [n \in DOMAIN s |-> [id |-> n, hasDuration |-> s[n].hasDuration,
                                             duration |-> s[n].duration]]
              a == Animation(frames)
              sync == synchronize(frames, a, a.partialUnit)
          IN  fc = [frames |-> frames, static |-> a.static, partialUnit |-> a.partialUnit,
                    fullDuration |-> a.fullDuration, looping |-> a.looping,
                    lastFrameId |-> a.lastFrameId, unit |-> sync.unit,
                    table |-> IF a.static THEN <<>> ELSE sync.table,
                    called |-> FALSE, t |-> 0, out |-> 0]

NextFrameTable == Synchronize \/ AnimationCall

SpecFrameTable == InitFrameTable /\ [][NextFrameTable]_vars

(***************************************************************************)
(* The calls made on a Canvace.Buckets object and on its view.  bc holds    *)
(* the elements the last forEachElement passed to its action, in order,     *)
(* until the next call changes the buckets or the view.                     *)
(***************************************************************************)
MaxElements == 2    \* most elements ever added to the buckets

SetBuckets(st) ==
    /\ elements' = st.elements
    /\ buckets' = st.buckets
    /\ eraser' = st.eraser

\* the positions (i, j, k) entities are put at, in 1/PosDen of a cell
Positions == {<<0, 0, 0>>, <<3, 0, 0>>, <<7, 0, 0>>, <<3, 3, 0>>, <<0, 0, PosDen>>}

\* Stage.Entity.createInstance(i, j, k): buckets.addEntity, and an Instance
\* around the element it returns, which adds itself to `instances`
AddEntity ==
    /\ Len(elements) < MaxElements
    /\ \E id \in (DOMAIN entities) \cup {9}, q \in Positions :
          IF id \in DOMAIN entities
          THEN /\ SetBuckets(Element(BucketsState, entities[id], q[1], q[2], q[3], "element"))
               /\ instances' = instances \cup {Len(elements) + 1}
               /\ bc' = [called |-> FALSE, out |-> <<>>, thrown |-> NotThrown]
          ELSE /\ bc' = [called |-> FALSE, out |-> <<>>,
                         thrown |-> [message |-> "invalid entity ID", id |-> id]]
               /\ UNCHANGED <<elements, buckets, eraser, instances>>
    /\ UNCHANGED <<astarVars, stageVars, matrix, rc, origin, pc>>

AddTile ==
    /\ Len(elements) < MaxElements
    /\ \E id \in {FloorTile, WallTile, 9}, i \in {0, 2} :
          IF id \in DOMAIN tiles
          THEN /\ SetBuckets(addTile(BucketsState, id, i, 0, 0))
               /\ bc' = [called |-> FALSE, out |-> <<>>, thrown |-> NotThrown]
          ELSE /\ bc' = [called |-> FALSE, out |-> <<>>,
                         thrown |-> [message |-> "invalid tile ID", id |-> id]]
               /\ UNCHANGED <<elements, buckets, eraser>>
    /\ UNCHANGED <<astarVars, stageVars, matrix, rc, origin, instances, pc>>

ReplaceTile ==
    /\ Len(elements) < MaxElements
    /\ \E id \in {FloorTile, WallTile, 9}, i \in {0, 2} :
          LET r == replaceTile(BucketsState, i, 0, 0, id)
          IN  /\ SetBuckets(r.st)
              /\ bc' = [called |-> FALSE, out |-> <<>>, thrown |-> r.thrown]
    /\ UNCHANGED <<astarVars, stageVars, matrix, rc, origin, instances, pc>>

\* Instance.replaceWith(entity) on the instance of element e, with the id
\* entity.getId() gives: the remover of `instances` is called first, then
\* element.replace, and a new Instance is made around the element it returns
replaceWith(st, set, e, id) ==
    IF e \in set
    THEN LET r == replace(st, e, id)
         IN  [st |-> r.st,
              instances |-> IF r.thrown.message = "none"
                            THEN (set \ {e}) \cup {Len(st.elements) + 1}
                            ELSE set \ {e},
              thrown |-> r.thrown]
    ELSE [st |-> st, instances |-> set,
          thrown |-> [message |-> "the instance cannot be replaced because it has been removed",
                      id |-> 0]]

ReplaceWith ==
    /\ Len(elements) < MaxElements
    /\ \E e \in DOMAIN elements, id \in (DOMAIN entities) \cup {9} :
          /\ elements[e].handle = "element"
          /\ LET r == replaceWith(BucketsState, instances, e, id)
             IN  /\ SetBuckets(r.st)
                 /\ instances' = r.instances
                 /\ bc' = [called |-> FALSE, out |-> <<>>, thrown |-> r.thrown]
    /\ UNCHANGED <<astarVars, stageVars, matrix, rc, origin, pc>>

\* Instance.remove() on the instance of an entity (element.remove(), then the
\* remover instances.add returned), or the remover addTile returned
Remove ==
    /\ \E e \in DOMAIN elements :
          /\ elements[e].handle \in {"element", "remover"}
          /\ SetBuckets(remove(BucketsState, e))
          /\ instances' = IF elements[e].handle = "element" THEN instances \ {e}
                           ELSE instances
          /\ bc' = [called |-> FALSE, out |-> <<>>, thrown |-> NotThrown]
    /\ UNCHANGED <<astarVars, stageVars, matrix, rc, origin, pc>>

RemoveTile ==
    /\ \E i \in {0, 2} : SetBuckets(removeTile(BucketsState, i, 0, 0).st)
    /\ bc' = [called |-> FALSE, out |-> <<>>, thrown |-> NotThrown]
    /\ UNCHANGED <<astarVars, stageVars, matrix, rc, origin, instances, pc>>

UpdatePosition ==
    /\ \E e \in DOMAIN elements, q \in Positions :
          /\ elements[e].handle = "element"
          /\ SetBuckets(updatePosition(BucketsState, e, q[1], q[2], q[3]))
          /\ bc' = [called |-> FALSE, out |-> <<>>, thrown |-> NotThrown]
    /\ UNCHANGED <<astarVars, stageVars, matrix, rc, origin, instances, pc>>

\* view.dragTo(x, y)
DragTo ==
    /\ \E o \in {<<0, 0>>, <<0 - 7, 0>>, <<0 - 4, 0 - 5>>} : origin' = [x |-> o[1], y |-> o[2]]
    /\ bc' = [called |-> FALSE, out |-> <<>>, thrown |-> NotThrown]
    /\ UNCHANGED <<astarVars, stageVars, matrix, rc, elements, buckets, eraser, instances, pc>>

ForEachElement ==
    /\ bc' = [called |-> TRUE, out |-> forEachElement(BucketsState, origin),
              thrown |-> NotThrown]
    /\ UNCHANGED <<astarVars, stageVars, matrix, rc, elements, buckets, eraser, origin, instances, pc>>

InitBuckets ==
    /\ AstarUnused
    /\ CollisionIdle
    /\ PutAtIdle
    /\ InstanceIdle
    /\ FrameTableIdle
    /\ MultiSetIdle
    /\ ListIdle
    /\ MachineIdle
    /\ LadybugIdle
    /\ LoaderIdle
    /\ RenderLoopIdle
    /\ BucketsIdle
    /\ matrix = EmptyMatrix

NextBuckets ==
    \/ AddEntity \/ AddTile \/ Remove \/ RemoveTile \/ UpdatePosition
    \/ ReplaceTile \/ ReplaceWith \/ DragTo \/ ForEachElement

SpecBuckets == InitBuckets /\ [][NextBuckets]_vars

(***************************************************************************)
(* A Canvace.TileMap over its matrix and buckets: the constructor loads     *)
(* data.map, then putAt is called.  pc holds the last call.                 *)
(***************************************************************************)
MaxPuts == 2        \* most putAt calls made on a map

\* the reference cells data.map may fill on layer 0, in `for in` order
MapCells == << <<0, 0>>, <<0, 1>>, <<1, 0>>, <<1, 1>> >>

\* data.map holds the tiles ids[c] at the reference cells c of `placed`;
\* the tiles of a map do not overlap
InitTileMap ==
    /\ AstarUnused
    /\ CollisionIdle
    /\ PutAtIdle
    /\ InstanceIdle
    /\ FrameTableIdle
    /\ MultiSetIdle
    /\ ListIdle
    /\ MachineIdle
    /\ LadybugIdle
    /\ LoaderIdle
    /\ RenderLoopIdle
    /\ origin = [x |-> 0, y |-> 0]
    /\ bc = [called |-> FALSE, out |-> <<>>, thrown |-> NotThrown]
    /\ instances = {}
    /\ \E placed \in SUBSET {MapCells[n] : n \in DOMAIN MapCells},
          ids \in [{MapCells[n] : n \in DOMAIN MapCells} ->
                      {FloorTile, WallTile, WideTile, BlockTile}] :
          LET Cells(c) == {Covered(ids[c], c[1], c[2])[n] :
                              n \in DOMAIN Covered(ids[c], c[1], c[2])}
              cells == SelectSeq(MapCells, LAMBDA c : c \in placed)
              map == [n \in DOMAIN cells |-> <<cells[n][1], cells[n][2], 0, ids[cells[n]]>>]
              loaded == TileMap(map, EmptyMatrix, NoBuckets)
          IN  /\ \A c \in placed, d \in placed : (c # d) => (Cells(c) \cap Cells(d) = {})
              /\ matrix = loaded.matrix
              /\ elements = loaded.st.elements
              /\ buckets = loaded.st.buckets
              /\ eraser = loaded.st.eraser

PutAt ==
    /\ pc.n < MaxPuts
    /\ \E c \in {MapCells[n] : n \in DOMAIN MapCells}, k \in {0, 1},
          id \in {FloorTile, WallTile, WideTile, BlockTile, 9} :
          LET call == putAt(matrix, BucketsState, c[1], c[2], k, id)
          IN  /\ matrix' = call.matrix
              /\ SetBuckets(call.st)
              /\ pc' = [n |-> pc.n + 1, i |-> c[1], j |-> c[2], k |-> k, id |-> id,
                      ret |-> call.ret]
    /\ UNCHANGED <<astarVars, stageVars, rc, origin, bc, instances>>

NextTileMap == PutAt

SpecTileMap == InitTileMap /\ [][NextTileMap]_vars

(***************************************************************************)
(* Reference notions for the claims about findPath.                         *)
(***************************************************************************)
\* larger than the cost of any path of a hand-built graph
Unreachable == (MaxW + 1) * Len(AbsEdges)

MinOf(S) == CHOOSE x \in S : \A y \in S : x <= y

\* the cost of a cheapest path of at most `steps` edges from n to a node
\* whose heuristic is zero
RECURSIVE AbsCheapest(_, _, _)
AbsCheapest(g, n, steps) ==
    IF g.h[n] = 0 THEN 0
    ELSE IF steps = 0 THEN Unreachable
    ELSE MinOf({Unreachable} \cup
               {Min(Unreachable, g.w[e] + AbsCheapest(g, AbsEdges[e][2], steps - 1)) :
                   e \in {x \in 1 .. Len(AbsEdges) :
                             AbsEdges[x][1] = n /\ g.w[x] > 0}})

AbsOptimal(g, n) == AbsCheapest(g, n, Cardinality(AbsNodes))

Admissible(g) == \A n \in AbsNodes : g.h[n] <= AbsOptimal(g, n)

Consistent(g) ==
    \A e \in 1 .. Len(AbsEdges) :
        g.w[e] > 0 => g.h[AbsEdges[e][1]] <= g.w[e] + g.h[AbsEdges[e][2]]

\* the summed edge weights of a path of edge labels that starts at node id
RECURSIVE PathCost(_, _)
PathCost(id, edges) ==
    IF edges = <<>> THEN 0
    ELSE LET nbs == Node(id).neighbors
             nb == CHOOSE x \in {nbs[y] : y \in 1 .. Len(nbs)} : x[1] = Head(edges)
         IN  Distance(id, Head(edges)) + PathCost(nb[2], Tail(edges))

\* C1: on a graph with an admissible heuristic that is zero only at the
\* target, findPath returns a path that costs at most (1 + epsilon) times
\* the cost of a cheapest path (the cheapest cost itself when epsilon is 0).
C1_CostWithinEpsilonOfOptimal ==
    (/\ apc = "done"
     /\ graph.kind = "abstract"
     /\ Admissible(graph)
     /\ AbsOptimal(graph, 1) < Unreachable)
    => /\ ~path.null
       /\ EpsDen * PathCost(graph.start, path.edges)
             <= (EpsDen + graph.eps) * AbsOptimal(graph, 1)

\* the same bound for the heuristics that are consistent as well
Aux_CostWithinEpsilonWhenConsistent ==
    (/\ apc = "done"
     /\ graph.kind = "abstract"
     /\ Admissible(graph)
     /\ Consistent(graph)
     /\ AbsOptimal(graph, 1) < Unreachable)
    => /\ ~path.null
       /\ EpsDen * PathCost(graph.start, path.edges)
             <= (EpsDen + graph.eps) * AbsOptimal(graph, 1)

\* the ids of the nodes that neighbor edges lead to from the nodes of S
RECURSIVE ReachableFrom(_)
ReachableFrom(S) ==
    LET Next1(n) == LET nbs == Node(n).neighbors
                    IN  {nbs[x][2] : x \in 1 .. Len(nbs)}
        T == S \cup UNION {Next1(n) : n \in S}
    IN  IF T = S THEN S ELSE ReachableFrom(T)

GoalReachable == \E n \in ReachableFrom({graph.start}) : Node(n).heuristic = 0

\* the cells a returned path walks, the start cell first
WalkedCells == <<graph.start>> \o path.cells

\* C5 (as amended): on the 10x10 grid of walkable tiles with one solid cell
\* at (5,5), findPath(0,0,0,9,9) returns a path of 11 steps that ends at
\* (9,9) and none of whose cells is (5,5).
C5_ScenarioPathHasElevenSteps ==
    (apc = "done" /\ graph.scenario)
    => /\ ~path.null
       /\ Len(path.edges) = 11
       /\ WalkedCells[Len(WalkedCells)] = <<9, 9>>
       /\ \A x \in 1 .. Len(WalkedCells) : WalkedCells[x] # <<5, 5>>

\* C5 (as stated): the path returned in that scenario has length 9 and
\* avoids (5,5).
C5_ScenarioPathHasNineSteps ==
    (apc = "done" /\ graph.scenario)
    => /\ ~path.null
       /\ Len(path.edges) = 9
       /\ \A x \in 1 .. Len(WalkedCells) : WalkedCells[x] # <<5, 5>>

C5_Witness == apc = "done" /\ graph.scenario /\ ~path.null /\ Cardinality(closedSet) > 9

\* C7: findPath returns a path when a node with heuristic 0 can be reached
\* from the start node through neighbor edges, and null exactly when none can.
C7_NullIffGoalUnreachable ==
    (apc = "done") => (path.null <=> ~GoalReachable)

\* a search that explored several cells of a grid whose target, a walkable
\* cell other than the start, is cut off by solid cells
C7_Witness ==
    /\ apc = "done"
    /\ path.null
    /\ graph.kind = "grid"
    /\ walkable(matrix, graph.i1, graph.j1, graph.k)
    /\ Cardinality(closedSet) >= 3

\* C8: every step of a path returned by TileMap.findPath moves to one of the
\* 8 neighbouring cells, that cell is walkable, and a diagonal step is taken
\* only when both orthogonal cells beside it are walkable.
StepIsLegal(from, to) ==
    /\ Abs(to[1] - from[1]) <= 1
    /\ Abs(to[2] - from[2]) <= 1
    /\ to # from
    /\ MatrixHas(matrix, to[1], to[2], graph.k)
    /\ ~tiles[MatrixGet(matrix, to[1], to[2], graph.k).id].solid
    /\ (to[1] # from[1] /\ to[2] # from[2])
          => \A c \in {<<from[1], to[2]>>, <<to[1], from[2]>>} :
                /\ MatrixHas(matrix, c[1], c[2], graph.k)
                /\ ~tiles[MatrixGet(matrix, c[1], c[2], graph.k).id].solid

RcOverlapsWall ==
    \E c \in DOMAIN matrix.data :
        /\ tiles[matrix.data[c].id].solid
        /\ c[1] * Unit + 1 < rc.i + rc.di /\ rc.i + 1 < (c[1] + 1) * Unit
        /\ c[2] * Unit + 1 < rc.j + rc.dj /\ rc.j + 1 < (c[2] + 1) * Unit

C6_Scenario ==
    /\ rc.called
    /\ {c \in DOMAIN matrix.data : tiles[matrix.data[c].id].solid} = {<<2, 0, 0>>, <<2, 1, 0>>}
    /\ rc.k = 0 /\ rc.c = "none"
    /\ rc.i = 1600 /\ rc.j = 0 /\ rc.di = 1000

\* C6 (as stated): with Di = 0.5 the vector returned is (-0.6, 0).
C6_CorrectionAlignsRightEdge ==
    (C6_Scenario /\ rc.Di = 500) => (rc.v.i = 0 - 600 /\ rc.v.j = 0)

\* C6 (as amended): with Di = 0.5 the vector returned is (0, 0), the -0.6
\* that would align the right edge with x = 2 being larger than
\* |Di| + 0.001; with Di = 0.6 the vector returned is (-0.6, 0).
C6_CorrectionClampedByDisplacement ==
    /\ (C6_Scenario /\ rc.Di = 500) => (rc.v.i = 0 /\ rc.v.j = 0)
    /\ (C6_Scenario /\ rc.Di = 600) => (rc.v.i = 0 - 600 /\ rc.v.j = 0)

C6_Witness == C6_Scenario /\ rc.Di = 600 /\ rc.v.i = 0 - 600

(***************************************************************************)
(* Reference notions for the claims about the buckets.                      *)
(***************************************************************************)
\* the projected bounding box of el and the viewport share a pixel
IntersectsViewport(el, o) ==
    \E x \in el.p[1] .. el.p[1] + el.element.width,
       y \in el.p[2] .. el.p[2] + el.element.height :
          /\ x \in (0 - o.x) .. (0 - o.x) + width - 1
          /\ y \in (0 - o.y) .. (0 - o.y) + height - 1

\* element e has an entry in bucket key, in some section
RegisteredIn(e, key) ==
    /\ key \in DOMAIN buckets
    /\ \E s \in DOMAIN buckets[key].sections :
          \E n \in DOMAIN buckets[key].sections[s] : buckets[key].sections[s][n] = e

\* the bucket cells the projected bounding box of el overlaps
OverlappedBuckets(el) ==
    {<<r, c>> : r \in (el.p[2] \div height) .. ((el.p[2] + el.element.height) \div height),
                c \in (el.p[1] \div width) .. ((el.p[1] + el.element.width) \div width)}

\* C2: after any sequence of addTile/addEntity, updatePosition, remove and
\* viewport moves, forEachElement passes a placed (non-removed) element to
\* its action if and only if the element's projected bounding box intersects
\* the current viewport rectangle.
C2_EnumeratedIffIntersectsViewport ==
    bc.called =>
        \A e \in DOMAIN elements :
            ~elements[e].removed =>
                ((\E n \in DOMAIN bc.out : bc.out[n] = e)
                    <=> IntersectsViewport(elements[e], origin))

\* what does hold of forEachElement: it passes only placed elements whose
\* bounding box intersects the viewport
Aux_EnumeratedOnlyIfIntersectsViewport ==
    bc.called =>
        \A n \in DOMAIN bc.out :
            /\ ~elements[bc.out[n]].removed
            /\ IntersectsViewport(elements[bc.out[n]], origin)

\* C9: at all times, also after every updatePosition call, a non-removed
\* element is registered in every bucket cell its projected bounding box
\* overlaps, and these are between 1 and 4 buckets.
C9_RegisteredInEveryOverlappedBucket ==
    \A e \in DOMAIN elements :
        ~elements[e].removed =>
            /\ \A key \in OverlappedBuckets(elements[e]) : RegisteredIn(e, key)
            /\ Cardinality({key \in DOMAIN buckets : RegisteredIn(e, key)}) \in 1 .. 4

\* what does hold of the registrations: a non-removed element is registered
\* in between 1 and 4 buckets, the one named by its fields bi and bj first
Aux_RegisteredInOneToFourBuckets ==
    \A e \in DOMAIN elements :
        ~elements[e].removed =>
            /\ RegisteredIn(e, <<elements[e].bi, elements[e].bj>>)
            /\ Cardinality({key \in DOMAIN buckets : RegisteredIn(e, key)}) \in 1 .. 4

\* C10: updatePosition re-registers the element only when the new projected
\* position lies in another layer or bucket cell than the one the element is
\* registered under; otherwise it overwrites the stored projected position
\* and leaves every bucket registration untouched.
C10_RebucketsOnlyOnCrossing ==
    [][\A e \in DOMAIN elements, q \in Positions :
          LET this == elements[e]
              p1 == projectElement(this.element, q[1], q[2], q[3])
              crossing == \/ p1[3] # this.p[3]
                          \/ p1[2] \div height # this.bi
                          \/ p1[1] \div width # this.bj
          IN  (/\ this.handle = "element"
               /\ ~this.removed
               /\ <<elements', buckets', eraser'>>
                     = <<updatePosition(BucketsState, e, q[1], q[2], q[3]).elements,
                         updatePosition(BucketsState, e, q[1], q[2], q[3]).buckets,
                         updatePosition(BucketsState, e, q[1], q[2], q[3]).eraser>>
               /\ ~crossing)
              => /\ buckets' = buckets
                 /\ elements'[e].removers = this.removers
                 /\ elements'[e].p = p1]_vars

(***************************************************************************)
(* Reference notions for the claims about putAt.                            *)
(***************************************************************************)
\* cell (i, j, k) is occupied by a non-mutable tile: it holds the id of one,
\* or names a reference cell that does
OccupiedByNonMutable(m, i, j, k) ==
    /\ MatrixHas(m, i, j, k)
    /\ LET value == MatrixGet(m, i, j, k)
       IN  IF value.num THEN ~tiles[value.id].mutable
           ELSE /\ MatrixHas(m, value.i, value.j, k)
                /\ MatrixGet(m, value.i, value.j, k).num
                /\ ~tiles[MatrixGet(m, value.i, value.j, k).id].mutable

\* the call pc' names placed a tile of several cells, one of which was
\* occupied by a non-mutable tile
PutOverNonMutable ==
    /\ pc'.n = pc.n + 1
    /\ pc'.id \in DOMAIN tiles
    /\ Len(Covered(pc'.id, pc'.i, pc'.j)) > 1
    /\ \E n \in DOMAIN Covered(pc'.id, pc'.i, pc'.j) :
          OccupiedByNonMutable(matrix, Covered(pc'.id, pc'.i, pc'.j)[n][1],
                               Covered(pc'.id, pc'.i, pc'.j)[n][2], pc'.k)

\* C3: every placement of a multi-cell tile that would cover a cell occupied
\* by a non-mutable tile makes putAt return false and leaves the map
\* unchanged, whatever the other covered cells contain.
C3_PutOverNonMutableReturnsFalse ==
    [][PutOverNonMutable =>
          /\ pc'.ret = "false"
          /\ matrix' = matrix
          /\ <<elements', buckets', eraser'>> = <<elements, buckets, eraser>>]_vars

\* what does hold of these placements: the map is unchanged, and the call
\* either returns false or throws a TypeError
Aux_PutOverNonMutableChangesNothing ==
    [][PutOverNonMutable =>
          /\ pc'.ret \in {"false", "TypeError"}
          /\ matrix' = matrix
          /\ <<elements', buckets', eraser'>> = <<elements, buckets, eraser>>]_vars

\* C11: once remove() has been called on a placed element or instance, it
\* is registered in no bucket and in no instance set, forEachElement never
\* passes it to its action again, it stays removed, and a later remove() or
\* updatePosition() call on it changes nothing.
C11_RemovedStaysOut ==
    /\ [](\A e \in DOMAIN elements :
            elements[e].removed =>
                /\ \A key \in DOMAIN buckets : ~RegisteredIn(e, key)
                /\ e \notin instances
                /\ bc.called => \A n \in DOMAIN bc.out : bc.out[n] # e
                /\ remove(BucketsState, e) = BucketsState
                /\ \A q \in Positions :
                      updatePosition(BucketsState, e, q[1], q[2], q[3]) = BucketsState)
    /\ [][\A e \in DOMAIN elements : elements[e].removed => elements'[e].removed]_vars

\* a removed entity whose bounding box lies in the viewport, after a
\* forEachElement that another element was enumerated by
C11_Witness ==
    /\ bc.called
    /\ bc.out # <<>>
    /\ \E e \in DOMAIN elements :
          /\ elements[e].removed
          /\ elements[e].handle = "element"
          /\ IntersectsViewport(elements[e], origin)

\* C12: putAt checks every covered cell before it commits any: whenever a
\* call returns false, it has changed no map cell and no bucket registration.
C12_FalseChangesNothing ==
    [][(pc'.n = pc.n + 1 /\ pc'.ret = "false") =>
          /\ matrix' = matrix
          /\ <<elements', buckets', eraser'>> = <<elements, buckets, eraser>>]_vars

\* cell (i, j, k) is empty or covered by a mutable tile
EmptyOrMutable(m, i, j, k) ==
    \/ ~MatrixHas(m, i, j, k)
    \/ LET value == MatrixGet(m, i, j, k)
       IN  IF value.num THEN tiles[value.id].mutable
           ELSE /\ MatrixHas(m, value.i, value.j, k)
                /\ MatrixGet(m, value.i, value.j, k).num
                /\ tiles[MatrixGet(m, value.i, value.j, k).id].mutable

\* C13: putAt(i, j, k, id) with a valid id returns true and places the tile
\* (getAt(i, j, k) then returns id) whenever every cell the tile would cover
\* is empty or covered by a mutable tile; it returns false only when a
\* covered cell is occupied by a non-mutable tile.
C13_PutAtSucceedsOnClearCells ==
    [][(pc'.n = pc.n + 1 /\ pc'.id \in DOMAIN tiles) =>
          LET cells == Covered(pc'.id, pc'.i, pc'.j)
          IN  /\ (\A n \in DOMAIN cells :
                     EmptyOrMutable(matrix, cells[n][1], cells[n][2], pc'.k))
                  => /\ pc'.ret = "true"
                     /\ getAt(matrix', pc'.i, pc'.j, pc'.k)
                           = [number |-> TRUE, id |-> pc'.id]
              /\ (pc'.ret = "false")
                  => \E n \in DOMAIN cells :
                        OccupiedByNonMutable(matrix, cells[n][1], cells[n][2], pc'.k)]_vars

\* what does hold of putAt: a call that returns true has placed the tile
Aux_TruePutAtPlacesTheTile ==
    [][(pc'.n = pc.n + 1 /\ pc'.ret = "true") =>
          getAt(matrix', pc'.i, pc'.j, pc'.k) = [number |-> TRUE, id |-> pc'.id]]_vars

\* the cells the tile `id` covers from reference cell (i, j), as a set
CoveredSet(id, i, j) == {Covered(id, i, j)[n] : n \in DOMAIN Covered(id, i, j)}

\* the cells of the map are consistent: a cell that holds a string names a
\* reference cell that holds the id of a tile covering the cell, and every
\* cell a placed tile covers besides its reference cell names that cell
ConsistentCells(m) ==
    \A c \in DOMAIN m.data :
        LET value == m.data[c]
        IN  IF value.num
            THEN \A d \in CoveredSet(value.id, c[1], c[2]) \ {<<c[1], c[2]>>} :
                    /\ MatrixHas(m, d[1], d[2], c[3])
                    /\ MatrixGet(m, d[1], d[2], c[3]) = RefCell(c[1], c[2])
            ELSE /\ MatrixHas(m, value.i, value.j, c[3])
                 /\ MatrixGet(m, value.i, value.j, c[3]).num
                 /\ <<c[1], c[2]>> \in CoveredSet(MatrixGet(m, value.i, value.j, c[3]).id,
                                                  value.i, value.j)

\* C14: after the initial map load and after any sequence of putAt calls,
\* every occupied cell is a reference cell holding a tile id or holds a
\* back-reference to the cell that holds the id of the tile covering it,
\* and each placed tile has exactly one reference cell.
C14_CellsAreConsistent == ConsistentCells(matrix)

\* what does hold: the map is consistent right after the load
Aux_LoadedCellsAreConsistent == (pc.n = 0) => ConsistentCells(matrix)

(***************************************************************************)
(* C15: a placement or replacement call given an id that is not in the     *)
(* static data raises at once, the exception carries that id, and the      *)
(* bucket index, the tile map and the instance sets are left as they were  *)
(* before the call.                                                         *)
(***************************************************************************)
C15_InvalidIdLeavesStateUnchanged ==
    [][(bc'.thrown.message \in {"invalid tile ID", "invalid entity ID"}) =>
          /\ IF bc'.thrown.message = "invalid tile ID"
             THEN bc'.thrown.id \notin DOMAIN tiles
             ELSE bc'.thrown.id \notin DOMAIN entities
          /\ <<elements', buckets', eraser'>> = <<elements, buckets, eraser>>
          /\ instances' = instances
          /\ matrix' = matrix]_vars

\* the calls that check the id before they change anything: an exception
\* with an id leaves the buckets changed only when a tile was being replaced,
\* and the instance set changed only when an instance was
Aux_InvalidIdRaisesWithTheId ==
    [][(bc'.thrown.message \in {"invalid tile ID", "invalid entity ID"}) =>
          /\ IF bc'.thrown.message = "invalid tile ID"
             THEN bc'.thrown.id \notin DOMAIN tiles
             ELSE bc'.thrown.id \notin DOMAIN entities
          /\ (<<elements', buckets', eraser'>> # <<elements, buckets, eraser>>) =>
                \E c \in DOMAIN eraser :
                   [elements |-> elements', buckets |-> buckets', eraser |-> eraser'] =
                      removeTile(BucketsState, c[1], c[2], c[3]).st
          /\ instances' \subseteq instances
          /\ matrix' = matrix]_vars

(***************************************************************************)
(* C16: rectangleCollision returns at most one correction per axis, and     *)
(* when both the low-side and the high-side correction are found for an     *)
(* axis, the correction returned for that axis is 0.                        *)
(***************************************************************************)
\* the low-side and the high-side correction found along I by the first
\* loop of the call rc holds, and along J by its second loop
RcFound ==
    LET i0 == Floor(rc.i)
        j0 == Floor(rc.j)
        i1 == Ceil(rc.i + rc.di) - 1
        j1 == Ceil(rc.j + rc.dj) - 1
        solid(i, j) == solidTileAt(matrix, rc.c, i, j, rc.k)
        has == MatrixHasLayer(matrix, rc.k)
    IN  [iu |-> has /\ \E j2 \in j0 .. j1 :
                     solid(i0, j2) /\ ((i0 = i1) \/ ~solid(i0 + 1, j2)),
         io |-> has /\ \E j2 \in j0 .. j1 :
                     solid(i1, j2) /\ ((i0 = i1) \/ ~solid(i1 - 1, j2)),
         ju |-> has /\ \E i2 \in i0 .. i1 :
                     solid(i2, j0) /\ ((j0 = j1) \/ ~solid(i2, j0 + 1)),
         jo |-> has /\ \E i2 \in i0 .. i1 :
                     solid(i2, j1) /\ ((j0 = j1) \/ ~solid(i2, j1 - 1)),
         viu |-> Floor(rc.i) * Unit + Unit - rc.i,
         vio |-> (Ceil(rc.i + rc.di) - 1) * Unit - rc.i - rc.di,
         vju |-> Floor(rc.j) * Unit + Unit - rc.j,
         vjo |-> (Ceil(rc.j + rc.dj) - 1) * Unit - rc.j - rc.dj]

C16_OneCorrectionPerAxis ==
    rc.called =>
       /\ (RcFound.iu /\ RcFound.io) => rc.v.i = 0
       /\ (RcFound.ju /\ RcFound.jo) => rc.v.j = 0
       /\ rc.v.i # 0 => \/ RcFound.iu /\ ~RcFound.io /\ rc.v.i = RcFound.viu
                        \/ RcFound.io /\ ~RcFound.iu /\ rc.v.i = RcFound.vio
       /\ rc.v.j # 0 => \/ RcFound.ju /\ ~RcFound.jo /\ rc.v.j = RcFound.vju
                        \/ RcFound.jo /\ ~RcFound.ju /\ rc.v.j = RcFound.vjo

\* both corrections found along I, each within the clamp, and one correction
\* returned along J
C16_Witness ==
    /\ rc.called
    /\ RcFound.iu /\ RcFound.io
    /\ Abs(RcFound.viu) <= Abs(rc.Di) /\ Abs(RcFound.vio) <= Abs(rc.Di)
    /\ rc.v.j # 0

(***************************************************************************)
(* C17: in every map state reached by loading and by calls of putAt,        *)
(* rectangleCollision does not raise, and it returns the zero vector for    *)
(* every rectangle of zero size and for every rectangle that overlaps no    *)
(* solid cell.                                                              *)
(***************************************************************************)
\* the rectangles <<i, j, di, dj>> tested on layer 0 of the map, with moves
\* Di = Dj = Unit and no callback
RcRectangles ==
    {<<i, j, di, dj>> : i \in {0, 500, Unit}, j \in {0, 500, Unit},
                        di \in {0, Unit, 2 * Unit}, dj \in {0, Unit, 2 * Unit}}

\* the cell holds a solid tile, by its number or by the number of the cell
\* its string names
SolidCell(m, a, b, k) ==
    /\ MatrixHas(m, a, b, k)
    /\ ~solidTileAtRaises(m, a, b, k)
    /\ tiles[ResolveId(m, a, b, k)].solid

\* the rectangle has an interior point in common with a solid cell
OverlapsSolid(m, k, r) ==
    \E c \in DOMAIN m.data :
       /\ c[3] = k
       /\ SolidCell(m, c[1], c[2], k)
       /\ c[1] * Unit < r[1] + r[3] /\ r[1] < (c[1] + 1) * Unit
       /\ c[2] * Unit < r[2] + r[4] /\ r[2] < (c[2] + 1) * Unit

C17_NeverRaisesZeroOffSolid ==
    \A r \in RcRectangles :
       /\ ~rectangleCollisionRaises(matrix, 0, r[1], r[2], r[3], r[4], "none")
       /\ (r[3] = 0 \/ r[4] = 0 \/ ~OverlapsSolid(matrix, 0, r)) =>
             rectangleCollision(matrix, 0, r[1], r[2], r[3], r[4], Unit, Unit, "none")
                = [i |-> 0, j |-> 0]

\* what holds: a loaded map never makes the call raise, and the call, when it
\* does not raise, returns the zero vector for every rectangle of positive
\* spans that overlaps no solid cell
Aux_ZeroOffSolidWhenItReturns ==
    \A r \in RcRectangles :
       /\ (pc.n = 0) => ~rectangleCollisionRaises(matrix, 0, r[1], r[2], r[3], r[4], "none")
       /\ ( /\ ~rectangleCollisionRaises(matrix, 0, r[1], r[2], r[3], r[4], "none")
            /\ r[3] > 0 /\ r[4] > 0
            /\ ~OverlapsSolid(matrix, 0, r) ) =>
             rectangleCollision(matrix, 0, r[1], r[2], r[3], r[4], Unit, Unit, "none")
                = [i |-> 0, j |-> 0]

(***************************************************************************)
(* C18: each nonzero component of the vector Instance.rectangleCollision    *)
(* returns is the minimal displacement along its axis that, added to the    *)
(* origin of the rectangle, ends the overlap with the bounding box of the   *)
(* instance; the vector is (0, 0) when the rectangle does not overlap it.   *)
(***************************************************************************)
\* the bounding box of the instance of ic: its low and high side on each axis
IcBox ==
    [i0 |-> ic.position.i + box.i0, i1 |-> ic.position.i + box.i0 + box.iSpan,
     j0 |-> ic.position.j + box.j0, j1 |-> ic.position.j + box.j0 + box.jSpan]

IcOverlaps ==
    /\ ic.i < IcBox.i1 /\ ic.i + ic.di > IcBox.i0
    /\ ic.j < IcBox.j1 /\ ic.j + ic.dj > IcBox.j0

\* v is a least displacement of the interval [a, a + d) off [b0, b1)
MinimalOff(v, a, d, b0, b1) ==
    /\ v \in {b0 - a - d, b1 - a}
    /\ Abs(v) = Min(Abs(b0 - a - d), Abs(b1 - a))

C18_ComponentsAreMinimal ==
    ic.called =>
       /\ ~IcOverlaps => ic.v = [i |-> 0, j |-> 0]
       /\ ic.v.i # 0 => MinimalOff(ic.v.i, ic.i, ic.di, IcBox.i0, IcBox.i1)
       /\ ic.v.j # 0 => MinimalOff(ic.v.j, ic.j, ic.dj, IcBox.j0, IcBox.j1)

\* what holds: no correction without an overlap, and each nonzero component
\* moves the rectangle off the box along its axis, to one side or the other
Aux_ComponentsEndTheOverlap ==
    ic.called =>
       /\ ~IcOverlaps => ic.v = [i |-> 0, j |-> 0]
       /\ ic.v.i # 0 => ic.v.i \in {IcBox.i0 - ic.i - ic.di, IcBox.i1 - ic.i}
       /\ ic.v.j # 0 => ic.v.j \in {IcBox.j0 - ic.j - ic.dj, IcBox.j1 - ic.j}

(***************************************************************************)
(* C19: for a looping sequence of frames of total duration T sampled with   *)
(* the unit U, animation(t) = animation(t + T) for every t >= 0, and the    *)
(* animation function is constant on each interval [kU, (k + 1)U).          *)
(***************************************************************************)
\* the sum of the durations the frames declare
RECURSIVE SumOfDurations(_)
SumOfDurations(frames) ==
    IF frames = <<>> THEN 0
    ELSE (IF Head(frames).hasDuration THEN Head(frames).duration ELSE 0)
         + SumOfDurations(Tail(frames))

EveryFrameHasDuration == \A n \in DOMAIN fc.frames : fc.frames[n].hasDuration

C19_LoopingIsPeriodicAndSampled ==
    (fc.frames # <<>> /\ EveryFrameHasDuration /\ ~fc.static) =>
       /\ fc.unit > 0
       /\ \A t \in 0 .. MaxTime :
             /\ animation(fc, t) = animation(fc, t + SumOfDurations(fc.frames))
             /\ animation(fc, t) = animation(fc, (t \div fc.unit) * fc.unit)
       /\ fc.called =>
             /\ fc.out = animation(fc, fc.t + SumOfDurations(fc.frames))
             /\ fc.out = animation(fc, (fc.t \div fc.unit) * fc.unit)

\* a looping sequence synchronized to a finer unit, called inside a sampling
\* interval past its first period, where it shows a frame after the first
C19_Witness ==
    /\ fc.called /\ ~fc.static /\ EveryFrameHasDuration
    /\ fc.unit < fc.partialUnit
    /\ fc.t >= fc.fullDuration
    /\ fc.t % fc.partialUnit # 0
    /\ fc.out > 1

(***************************************************************************)
(* C20: a sequence where some frame declares no duration is one-shot: from  *)
(* the sum of the declared durations on, the animation function returns     *)
(* the id of the frame without a duration, forever; a sequence where every  *)
(* frame declares a duration loops.                                         *)
(***************************************************************************)
\* the last frame that declares no duration
TerminalFrame ==
    CHOOSE n \in DOMAIN fc.frames :
       /\ ~fc.frames[n].hasDuration
       /\ \A o \in DOMAIN fc.frames : ~fc.frames[o].hasDuration => o <= n

C20_OneShotEndsOnTerminalFrame ==
    fc.frames # <<>> =>
       IF EveryFrameHasDuration
       THEN \A t \in 0 .. 2 * MaxTime :
               animation(fc, t) = animation(fc, t % SumOfDurations(fc.frames))
       ELSE /\ \A t \in SumOfDurations(fc.frames) .. 2 * MaxTime :
                  animation(fc, t) = fc.frames[TerminalFrame].id
            /\ (fc.called /\ fc.t >= SumOfDurations(fc.frames)) =>
                  fc.out = fc.frames[TerminalFrame].id

\* a one-shot sequence whose terminal frame follows frames with durations,
\* called after those durations have elapsed
C20_Witness ==
    /\ fc.called /\ ~fc.static /\ ~EveryFrameHasDuration
    /\ fc.fullDuration > 0
    /\ fc.t > fc.fullDuration
    /\ TerminalFrame > 1
    /\ fc.out = fc.frames[TerminalFrame].id

(***************************************************************************)
(* C27: for every valid tile, mutable or not, addTile returns a function    *)
(* that removes the inserted tile, always returns true and is idempotent.   *)
(***************************************************************************)
C27_AddTileReturnsRemover ==
    \A e \in DOMAIN elements :
       (elements[e].handle # "element") =>
          /\ elements[e].handle = "remover"
          /\ remove(BucketsState, e).elements[e].removed
          /\ remove(remove(BucketsState, e), e) = remove(BucketsState, e)

\* what holds: addTile returns nothing exactly when it stored the closure
\* that removes the tile in the eraser, and the remover of any tile element
\* is idempotent
Aux_AddTileReturnsRemoverUnlessMutable ==
    /\ [][(Len(elements') = Len(elements) + 1) =>
            ((elements'[Len(elements')].handle = "none") <=>
               (\E c \in DOMAIN eraser' : eraser'[c] = Len(elements')))]_vars
    /\ [](\A e \in DOMAIN elements :
            remove(remove(BucketsState, e), e) = remove(BucketsState, e))

(***************************************************************************)
(* C28: Instance.replaceWith throws whenever it is invoked on an instance   *)
(* that has been removed or replaced by a previous call, and otherwise      *)
(* replaces the instance and returns a new Instance.                        *)
(***************************************************************************)
\* the call on the instance of e with the entity id replaces it: e is removed
\* and out of the set, and a new instance of the entity stands at its place
Replaces(e, id) ==
    LET r == replaceWith(BucketsState, instances, e, id)
        new == Len(elements) + 1
    IN  /\ r.thrown = NotThrown
        /\ r.st.elements[e].removed /\ e \notin r.instances
        /\ Len(r.st.elements) = new /\ new \in r.instances
        /\ ~r.st.elements[new].removed
        /\ r.st.elements[new].element = entities[id]
        /\ <<r.st.elements[new].i, r.st.elements[new].j, r.st.elements[new].k>>
              = <<elements[e].i, elements[e].j, elements[e].k>>

ThrowsRemoved(e, id) ==
    LET r == replaceWith(BucketsState, instances, e, id)
    IN  /\ r.thrown.message = "the instance cannot be replaced because it has been removed"
        /\ r.st = BucketsState /\ r.instances = instances

C28_ReplaceWithThrowsIffRemoved ==
    \A e \in DOMAIN elements, id \in DOMAIN entities :
       (elements[e].handle = "element") =>
          IF elements[e].removed THEN ThrowsRemoved(e, id) ELSE Replaces(e, id)

\* what holds: the call throws when the instance is out of the set of
\* instances and replaces it when it is in the set, and an instance is out
\* of the set with its element still there only after a call of replaceWith
\* with an id that is not an entity's
Aux_ReplaceWithThrowsIffOutOfSet ==
    \A e \in DOMAIN elements, id \in DOMAIN entities :
       (elements[e].handle = "element") =>
          /\ IF e \in instances THEN Replaces(e, id) ELSE ThrowsRemoved(e, id)
          /\ elements[e].removed => e \notin instances

(***************************************************************************)
(* C29: getAt and getAt2 return false when no tile is located at the        *)
(* position; getAt2 returns the tile id for a reference cell, and for a     *)
(* secondary cell of a multi-cell tile an object {id, i, j} that names the  *)
(* reference cell.                                                          *)
(***************************************************************************)
\* the positions asked for: the cells the maps cover and the cells around
AskedCells == {<<i, j, k>> : i \in 0 .. 2, j \in 0 .. 2, k \in {0, 1}}

C29_GetAt2FalseIdOrObject ==
    \A c \in AskedCells :
       LET r == getAt2(matrix, c[1], c[2], c[3], FALSE)
       IN  IF ~MatrixHas(matrix, c[1], c[2], c[3])
           THEN /\ ~getAt(matrix, c[1], c[2], c[3]).number
                /\ r.type = "false"
           ELSE IF MatrixGet(matrix, c[1], c[2], c[3]).num
           THEN /\ r.type = "number"
                /\ r.id = MatrixGet(matrix, c[1], c[2], c[3]).id
                /\ getAt(matrix, c[1], c[2], c[3]) = [number |-> TRUE, id |-> r.id]
           ELSE /\ r.type = "object" /\ r.idType = "number"
                /\ <<r.i, r.j>> = <<MatrixGet(matrix, c[1], c[2], c[3]).i,
                                    MatrixGet(matrix, c[1], c[2], c[3]).j>>
                /\ <<c[1], c[2]>> \in CoveredSet(r.id, r.i, r.j)

\* what holds: getAt returns false for an empty cell and for a secondary
\* cell, and on a loaded map getAt2 returns the id for a reference cell and
\* the object of the reference cell and its id for a secondary cell
Aux_GetAt2OnTilesOfLoadedMap ==
    \A c \in AskedCells :
       LET r == getAt2(matrix, c[1], c[2], c[3], FALSE)
       IN  IF ~MatrixHas(matrix, c[1], c[2], c[3])
           THEN ~getAt(matrix, c[1], c[2], c[3]).number /\ r.type = "TypeError"
           ELSE IF MatrixGet(matrix, c[1], c[2], c[3]).num
           THEN r.type = "number" /\ r.id = MatrixGet(matrix, c[1], c[2], c[3]).id
           ELSE /\ ~getAt(matrix, c[1], c[2], c[3]).number
                /\ (pc.n = 0) =>
                      /\ r.type = "object" /\ r.idType = "number"
                      /\ <<c[1], c[2]>> \in CoveredSet(r.id, r.i, r.j)

(***************************************************************************)
(* Heap claims, under SpecHeap.                                             *)
(***************************************************************************)
\* the elements a heap yields when it is popped until it is empty
RECURSIVE Drain(_, _)
Drain(h, os) ==
    IF h = <<>> THEN <<>>
    ELSE <<HeapPop(h, os)[1]>> \o Drain(HeapPop(h, os)[2], os)

NonDecreasing(q, os) ==
    \A n \in 1 .. Len(q) - 1 : compare(q[n], q[n + 1], os) <= 0

InHeap(u) == \E m \in DOMAIN heap : heap[m] = u

\* C25: pop returns an element that no element of the heap precedes, whatever
\* pushes and pops came before, and popping the heap until it is empty yields
\* the elements in non-decreasing order.
C25_PopReturnsMinimum ==
    /\ [](/\ \A m \in DOMAIN heap :
                compare(HeapPop(heap, openScore)[1], heap[m], openScore) <= 0
          /\ Len(Drain(heap, openScore)) = Len(heap)
          /\ NonDecreasing(Drain(heap, openScore), openScore))
    /\ [][Len(heap') = Len(heap) - 1 =>
             /\ heap' # <<>> =>
                   compare(HeapPop(heap, openScore)[1],
                           HeapPop(heap', openScore')[1], openScore) <= 0
             /\ {heap'[m] : m \in DOMAIN heap'} =
                   {heap[m] : m \in DOMAIN heap} \ {HeapPop(heap, openScore)[1]}]_vars

\* an element was pushed and popped, and the heap holds elements of
\* different keys
C25_Witness ==
    /\ graph.kind = "heap"
    /\ \E u \in DOMAIN openScore : ~InHeap(u)
    /\ Len(heap) >= 2
    /\ \E m, n \in DOMAIN heap : openScore[heap[m]] < openScore[heap[n]]

\* C26: decreaseKey on an element of the heap gives the stored element the
\* lower key and leaves a heap that still yields its elements in
\* non-decreasing order; on an element that is not in the heap it changes
\* nothing.
C26_DecreaseKeyAppliesAndReorders ==
    \A node \in DOMAIN openScore, cost \in 0 .. MaxKey :
       (graph.kind = "heap" /\ cost < openScore[node]) =>
          LET st0 == [heap |-> heap, os |-> openScore, bl |-> backLink]
              link == [parent |-> node, edge |-> 0]
              st == DecreaseKey(st0, node, cost, link)
          IN  IF InHeap(node)
              THEN /\ st.os = [openScore EXCEPT ![node] = cost]
                   /\ node \in DOMAIN st.bl /\ st.bl[node] = link
                   /\ Len(st.heap) = Len(heap)
                   /\ {st.heap[m] : m \in DOMAIN st.heap} =
                         {heap[m] : m \in DOMAIN heap}
                   /\ NonDecreasing(Drain(st.heap, st.os), st.os)
                   /\ Len(Drain(st.heap, st.os)) = Len(heap)
              ELSE st = st0

\* the key of an element below the root was decreased and the element is
\* now the root of a full heap, ahead of the others
C26_Witness ==
    /\ graph.kind = "heap"
    /\ Len(heap) = MaxHeap
    /\ At(heap, 0) \in DOMAIN backLink
    /\ \A m \in 2 .. Len(heap) : openScore[At(heap, 0)] < openScore[heap[m]]
    /\ \E u \in DOMAIN openScore : ~InHeap(u) \/ u \notin DOMAIN backLink
(***************************************************************************)
(* MultiSet claims, under SpecMultiSet.                                     *)
(***************************************************************************)
\* every remover leaves the other insertions alone and leaves a count that
\* is the number of insertions contained
RemoversRemoveTheirOwn ==
    \A id \in 0 .. ms.nextId - 1 :
       LET r == remover(ms, id)
       IN  /\ DOMAIN r.ms.elements = (DOMAIN ms.elements) \ {id}
           /\ \A n \in DOMAIN r.ms.elements : r.ms.elements[n] = ms.elements[n]
           /\ r.ms.count = Cardinality(DOMAIN r.ms.elements)
           /\ remover(r.ms, id) = [ms |-> r.ms, result |-> FALSE]

\* C30, as stated: count() is the number of insertions contained, every
\* remover removes its own insertion only, and the function add returned
\* returns true the first time it is called and false afterwards.
C30_CountAndFirstCallTrue ==
    /\ ms.count = Cardinality(DOMAIN ms.elements)
    /\ RemoversRemoveTheirOwn
    /\ \A id \in 0 .. ms.nextId - 1 :
          remover(ms, id).result = (id \notin ms.called)

\* C30, amended: count() is the number of insertions contained, every
\* remover removes its own insertion only, and it returns true exactly when
\* its insertion is still contained: on its first call unless clear() or a
\* remover of forEach took the insertion out before, never on a later call.
C30_CountAndTrueWhenContained ==
    /\ ms.count = Cardinality(DOMAIN ms.elements)
    /\ RemoversRemoveTheirOwn
    /\ \A id \in 0 .. ms.nextId - 1 :
          /\ remover(ms, id).result = (id \in DOMAIN ms.elements)
          /\ id \in ms.called => ~remover(ms, id).result

\* an element is contained twice, a remover was called and returned true,
\* and an insertion went away without its remover being called
C30_Witness ==
    /\ \E m, n \in DOMAIN ms.elements : m # n /\ ms.elements[m] = ms.elements[n]
    /\ ms.called # {} /\ ms.out
    /\ \E id \in 0 .. ms.nextId - 1 : id \notin ms.called /\ id \notin DOMAIN ms.elements
(***************************************************************************)
(* RenderLoop claims, under SpecRenderLoop and SpecRenderLoopLive.          *)
(***************************************************************************)
\* the calls of one kind made so far in the iteration, on one instance
Made(name, i) ==
    {a \in DOMAIN rl.done : rl.done[a].call = name /\ rl.done[a].instance = i}

\* the instances the iteration calls
Ticked == {c.instance : c \in {rl.done[a] : a \in DOMAIN rl.done}
                                 \cup {rl.todo[a] : a \in DOMAIN rl.todo}} \ {0}

Phase(c) ==
    CASE c.call \in {"tick", "userTick"} -> 0
      [] c.call = "update" -> 1
      [] c.call = "synchronizeView" -> 2
      [] c.call = "render" -> 3

\* an iteration begins: the browser runs a callback of the loop
IterationBegins == rl.todo = <<>> /\ rl'.todo # <<>>

\* C21: in an iteration every instance is ticked, each tick of the stage
\* being followed by the user's tick callback, before any instance is
\* updated; the view synchronization callback runs after all the updates
\* and the frame is rendered last.
C21_TickUpdateSynchronizeRender ==
    /\ \A a, b \in DOMAIN rl.done :
          a < b => Phase(rl.done[a]) <= Phase(rl.done[b])
    /\ \A a \in DOMAIN rl.done :
          LET c == rl.done[a]
              next == IF a < Len(rl.done) THEN rl.done[a + 1] ELSE Head(rl.todo)
          IN  /\ (c.call = "tick" /\ c.instance + 1 \in Ticked) =>
                    next = [call |-> "tick", instance |-> c.instance + 1]
              /\ (c.call = "tick" /\ c.instance + 1 \notin Ticked /\ rl.userTick) =>
                    next.call = "userTick"
              /\ c.call = "update" =>
                    /\ \A t \in DOMAIN rl.todo : rl.todo[t].call \notin {"tick", "userTick"}
                    /\ \A i, j \in Ticked :
                          /\ Made("tick", i) # {}
                          /\ Cardinality(Made("tick", i)) = Cardinality(Made("tick", j))
                          /\ rl.userTick =>
                                Cardinality(Made("userTick", 0)) = Cardinality(Made("tick", i))
              /\ c.call \in {"synchronizeView", "render"} =>
                    \A i \in Ticked : Cardinality(Made("update", i)) = 1
              /\ c.call = "render" =>
                    /\ a = Len(rl.done) /\ rl.todo = <<>>
                    /\ rl.synchronizeView => Cardinality(Made("synchronizeView", 0)) = 1

\* an iteration of two steps with both callbacks has rendered its frame
C21_Witness ==
    /\ rl.userTick /\ rl.synchronizeView
    /\ rl.done # <<>> /\ rl.done[Len(rl.done)].call = "render"
    /\ Cardinality(Made("tick", 2)) = 2
    /\ Cardinality(Made("update", 2)) = 1

\* C22: once stop() has been called on a running or suspended loop, run()
\* has no effect, the loop stays stopped and no iteration begins.
C22_StopIsTerminal ==
    /\ [](isStopped(rl) => run(rl) = rl)
    /\ [][isStopped(rl) => (isStopped(rl') /\ ~IterationBegins)]_vars

\* what stop() does achieve: it takes a running or suspended loop to the
\* stopped state and cancels the callback `token` names, and a stopped
\* loop of the interval type has no timer left
Aux_StopCancelsTheTokenOnly ==
    /\ rl.running => (isStopped(stop(rl)) /\ rl.token \notin stop(rl).pending)
    /\ (isStopped(rl) /\ rl.type = "interval") => rl.pending = {}

\* C23: suspend() on a running loop makes isSuspended() true, and no
\* iteration begins while the loop is suspended.
C23_SuspendStopsScheduling ==
    /\ []((rl.running /\ ~rl.banned) => isSuspended(suspend(rl)))
    /\ [][isSuspended(rl) => ~IterationBegins]_vars

\* what holds: suspend() makes isSuspended() true, and a suspended loop of
\* the interval type has no timer left
Aux_SuspendedIntervalHasNoTimer ==
    /\ (rl.running /\ ~rl.banned) => isSuspended(suspend(rl))
    /\ (isSuspended(rl) /\ rl.type = "interval") => rl.pending = {}

\* C24: run() on a loop never started, or on a suspended loop, leaves the
\* loop running and not suspended, with a callback scheduled; and a loop
\* that is running begins an iteration, unless it is suspended or stopped
\* first.
C24_RunStartsAndResumes ==
    /\ [](((~rl.running /\ ~rl.banned) \/ isSuspended(rl)) =>
             /\ run(rl).running /\ ~isSuspended(run(rl))
             /\ run(rl).token \in run(rl).pending)
    /\ (rl.running /\ ~rl.banned)
          ~> ((rl.done = <<>> /\ rl.todo # <<>>) \/ ~(rl.running /\ ~rl.banned))

\* a loop of the interval type on its second timer, the first having been
\* cleared, begins an iteration
C24_Witness ==
    /\ rl.type = "interval"
    /\ rl.running /\ ~rl.banned
    /\ rl.token = 2 /\ rl.pending = {2}
    /\ rl.done = <<>> /\ rl.todo # <<>>
(***************************************************************************)
(* Frame timing, under SpecFrameTable.                                      *)
(***************************************************************************)
\* the frame on show at time t of a sequence whose frames all declare a
\* duration: the m-th, when the durations before it sum to at most
\* t mod T and those up to it to more
FrameOnShow(t) ==
    CHOOSE m \in DOMAIN fc.frames :
       /\ SumOfDurations(SubSeq(fc.frames, 1, m - 1)) <= t % SumOfDurations(fc.frames)
       /\ t % SumOfDurations(fc.frames) < SumOfDurations(SubSeq(fc.frames, 1, m))

\* C33: for a looping sequence, after the constructor and after every
\* synchronize(period), the animation function returns at time t the frame
\* whose interval of declared durations holds t mod T.
C33_EveryFrameForItsDuration ==
    (fc.frames # <<>> /\ EveryFrameHasDuration /\ ~fc.static) =>
       /\ \A t \in 0 .. MaxTime :
             animation(fc, t) = fc.frames[FrameOnShow(t)].id
       /\ fc.called => fc.out = fc.frames[FrameOnShow(fc.t)].id

\* what holds: the first frame is on show at time 0, and within a period
\* the frames come in declaration order, none before its time
Aux_FramesInDeclarationOrder ==
    (fc.frames # <<>> /\ EveryFrameHasDuration /\ ~fc.static) =>
       /\ animation(fc, 0) = fc.frames[1].id
       /\ \A t \in 0 .. MaxTime :
             /\ animation(fc, t) \in 1 .. FrameOnShow(t)
             /\ \A u \in 0 .. MaxTime :
                   (t <= u /\ u < fc.fullDuration) => animation(fc, t) <= animation(fc, u)
\* C34: whatever run, suspend and stop calls were made, between iterations
\* or inside callbacks, the browser holds at most one callback of the loop,
\* and none beside the chain whose iteration is in progress.
C34_AtMostOneChain ==
    Cardinality(rl.pending)
       + (IF rl.type = "request" /\ rl.todo # <<>> /\ (rl.running \/ ~rl.banned)
          THEN 1 ELSE 0) <= 1

\* what holds: a loop of the interval type has at most one timer
Aux_AtMostOneIntervalTimer ==
    rl.type = "interval" => Cardinality(rl.pending) <= 1
(***************************************************************************)
(* forEachElement, under SpecBuckets.                                       *)
(***************************************************************************)
\* the calls of the action a forEachElement made for element e
Yields(e) == {n \in DOMAIN bc.out : bc.out[n] = e}

\* C35: a forEachElement call passes every placed element whose bounding
\* box meets the viewport to the action exactly once.
C35_EachVisibleElementOnce ==
    bc.called =>
       \A e \in DOMAIN elements :
          (~elements[e].removed /\ yieldElement(elements[e], origin)) =>
             Cardinality(Yields(e)) = 1

\* what holds: the action gets placed elements that meet the viewport
\* only, each as many times as the four buckets queried hold an entry of it
Aux_YieldsOncePerBucketEntry ==
    bc.called =>
       \A n \in DOMAIN bc.out :
          /\ ~elements[bc.out[n]].removed
          /\ yieldElement(elements[bc.out[n]], origin)
          /\ Cardinality(Yields(bc.out[n])) <= 4
(***************************************************************************)
(* List claims, under SpecList.                                             *)
(***************************************************************************)
\* C31: forEach, and the walk from getHead() along next(), visits the
\* elements in the list from the first to the last, and the walk from
\* getTail() along previous() visits them from the last to the first.
C31_ForEachVisitsTheList ==
    /\ forEach(ls) = ls.kept
    /\ backwards(ls) = Reverse(ls.kept)

\* what holds: a list built with addTail alone is walked in full from
\* getTail() along previous(), and one built with addHead alone from
\* getHead() along next()
Aux_WalkAgainstTheAdditions ==
    (\A n \in DOMAIN ls.nodes : ~ls.nodes[n].removed) =>
       /\ (ls.kept = [n \in DOMAIN ls.nodes |-> n]) =>
             backwards(ls) = Reverse(ls.kept)
       /\ (ls.kept = Reverse([n \in DOMAIN ls.nodes |-> n])) =>
             forEach(ls) = ls.kept

\* C32: count() is the number of elements in the list and isEmpty() is
\* true exactly when the list holds none.
C32_CountIsTheNumberOfElements ==
    /\ ls.count = Len(ls.kept)
    /\ (ls.count = 0) <=> (ls.kept = <<>>)

\* what holds: count() is the number of elements added since the list was
\* made or cleared, the removed ones included; it is never less than the
\* number of elements in the list
Aux_CountNeverBelowTheNumberOfElements ==
    /\ ls.count >= Len(ls.kept)
    /\ [][ls'.count = ls.count + 1 \/ ls'.count = 0 \/ ls'.count = ls.count]_vars
(***************************************************************************)
(* ParametricStateMachine, under SpecMachine.                               *)
(***************************************************************************)
\* C36: however many times it was taken before, a transition declared as
\* an array [stateName, param1, ...] enters stateName with the declared
\* parameters and raises nothing, and the array a state object holds stays
\* as declared.
C36_ArrayTransitionTakenAnyNumberOfTimes ==
    /\ \A s \in DOMAIN sm.kind :
          sm.kind[s] = "object" => sm.arrays[s] = sm.decl[s]
    /\ sm.thrown = "none" =>
          LET t == IF sm.currentStateName = "a" THEN "go" ELSE "back"
              declared == sm.decl[sm.currentStateName]
              r == transition(sm, t)
          IN  /\ r.thrown = "none"
              /\ r.currentStateName = declared[1]
              /\ sm.kind[declared[1]] = "function" => r.parameters = Tail(declared)

\* what holds: the transition does all that the first time the array is
\* used, and every time when the array is made anew at every entry of its
\* state or when the target state is an object
Aux_ArrayTransitionTakenOnce ==
    sm.thrown = "none" =>
       LET from == sm.currentStateName
           t == IF from = "a" THEN "go" ELSE "back"
           declared == sm.decl[from]
           r == transition(sm, t)
       IN  (sm.arrays[from] = declared) =>
              /\ r.thrown = "none"
              /\ r.currentStateName = declared[1]
              /\ sm.kind[declared[1]] = "function" => r.parameters = Tail(declared)
              /\ (sm.kind[from] = "function" \/ sm.kind[declared[1]] = "object") =>
                    \A s \in DOMAIN sm.kind :
                       sm.kind[s] = "object" => r.arrays[s] = sm.arrays[s]
(***************************************************************************)
(* The character of the Ladybug game (SpecLadybug)                          *)
(***************************************************************************)
Hurt == lb.currentStateName \in {"hurt", "hurtThenWalk"}

Moving == lb.currentStateName \in {"walking", "jumpingAndMoving", "fallingAndMoving"}

\* C37: when the events of each key alternate between keydown and keyup,
\* starting with keydown, then in every state reached by key, jump, fall,
\* land, hurt and arm transitions where neither the left nor the right key
\* is held and the character is not hurt, uniformVelocity.i is 0.
C37_NoKeyHeldNoUniformVelocity ==
    (lb.keys \cap {"LEFT", "RIGHT"} = {} /\ ~Hurt) => lb.uniformVelocity = 0

\* what holds: the same as long as the character was never hurt, the life
\* gauge being full, and its instance is not removed
Aux_NoKeyHeldNoUniformVelocityUnhurt ==
    (lb.keys \cap {"LEFT", "RIGHT"} = {} /\ lb.life = 5 /\ ~lb.removed) =>
       lb.uniformVelocity = 0

\* C38: every transition method of the character's machine, called in any
\* reachable state of the game, the states after the removal of the
\* character's instance included, returns without raising.
C38_TransitionsNeverRaise == lb.thrown = ""

\* what holds: a transition method raises only after the instance of the
\* character was removed
Aux_TransitionsRaiseAfterRemovalOnly == lb.thrown # "" => lb.removed

\* C39: after every transition uniformVelocity.i is -3.125 in the states
\* walking, jumpingAndMoving and fallingAndMoving with direction left,
\* +3.125 in these states with direction right, and 0 in every other state;
\* and no transition leaves the state dying.
VelocityOfState ==
    lb.uniformVelocity = IF ~Moving THEN 0
                         ELSE IF lb.parameters[1] = "left" THEN -3125 ELSE 3125

C39_VelocityFollowsState ==
    /\ VelocityOfState
    /\ [][/\ VelocityOfState'
          /\ lb.currentStateName = "dying" => lb'.currentStateName = "dying"]_vars

\* the character, hurt once with no key held, walks to the left after the
\* left key was pressed during the hurt and the character landed
C39_Witness ==
    /\ lb.currentStateName = "walking"
    /\ lb.parameters = <<"left">>
    /\ lb.velocity = [i |-> 0, j |-> 0]
    /\ lb.uniformVelocity = -3125
    /\ lb.keys = {"LEFT"}
    /\ lb.life = 4
(***************************************************************************)
(* Canvace.Loader (SpecLoader)                                              *)
(***************************************************************************)
\* every image and every sound the call c asked for has loaded
AssetsLoaded(c) ==
    /\ \A n \in DOMAIN ld.calls[c].images :
          ld.imageset[ld.calls[c].images[n]] = "loaded"
    /\ \A i \in ld.calls[c].sounds : ld.soundset[i] = "loaded"

\* C40: for each call of loadAssets the `complete` callback is invoked
\* exactly once: never more than once, never while an image or a sound of
\* that call is still loading, and once all of them have loaded.
C40_CompleteOnceAfterEveryAsset ==
    \A c \in DOMAIN ld.calls :
       /\ ld.calls[c].complete <= 1
       /\ ~ld.calls[c].early
       /\ AssetsLoaded(c) => ld.calls[c].complete = 1

\* what holds: the same for a first call of loadAssets that found no object
\* of the loader still loading, as long as loadAssets is not called again
Aux_CompleteOnceForALoneCall ==
    (Len(ld.calls) = 1 /\ \A id \in ImageIds : ld.imageListener[id] # 0
                                               \/ ld.imageset[id] = "none") =>
       /\ ld.calls[1].complete <= 1
       /\ ~ld.calls[1].early
       /\ AssetsLoaded(1) => ld.calls[1].complete = 1
=============================================================================
